---- MODULE Spec2Model ----
(***************************************************************************)
(* Model of the PDF-to-CSV processor: the extraction-method dispatch and   *)
(* the table cleaning of PDFExtractor (src/src/core/pdf_extractor.py) and  *)
(* the merging, serialization and validation of CSVConverter               *)
(* (src/src/core/csv_converter.py); the command line batch run             *)
(* (src/pdf_processor.py), the ConfigManager                               *)
(* (src/src/core/config_manager.py), FileHandler.save_csv                  *)
(* (src/src/utils/file_handler.py) and the worker threads of the GUI       *)
(* (src/gui_processor.py).                                                 *)
(*                                                                         *)
(* Python strings are sequences of one-character strings, so that split(), *)
(* int() and the "in" test are computed as the code computes them.  A      *)
(* Python value that may be a string, None or a missing dictionary key is  *)
(* a record [t |-> "str" | "None" | "missing", v |-> <characters>].        *)
(* In the dispatch a DataFrame is abstracted to its .empty flag and a list *)
(* of DataFrames is a sequence of such flags; in the table pipeline a      *)
(* DataFrame is its column labels and its rows of cells.                   *)
(***************************************************************************)
EXTENDS Integers, Sequences, FiniteSets, TLC

VARIABLES available_methods, doc, request, selected, outcome, calls,
          frames, job, ret,
          cli, config, disk, gui

vars == <<available_methods, doc, request, selected, outcome, calls,
          frames, job, ret, cli, config, disk, gui>>

\* the extractor's part of the state and the table pipeline's part
extractorVars == <<available_methods, doc, request, selected, outcome, calls>>
pipelineVars == <<frames, job, ret>>

\* the programs around the core: the command line run, the ConfigManager
\* object, the files save_csv works on and the window of the GUI
appVars == <<cli, config, disk, gui>>

(***************************************************************************)
(* Bounds                                                                  *)
(***************************************************************************)
MaxPages == 2
MaxProbeTables == 2
MaxTables == 1
MaxSelLen == 3

(***************************************************************************)
(* Python values                                                           *)
(***************************************************************************)
PyStr(s) == [t |-> "str", v |-> s]
PyNone == [t |-> "None", v |-> <<>>]
PyMissing == [t |-> "missing", v |-> <<>>]

S_all == <<"a", "l", "l">>
S_end == <<"e", "n", "d">>
S_1_end == <<"1", "-", "e", "n", "d">>

\* dict.get(key, default): the default only replaces a missing key
Get(val, default) == IF val.t = "missing" THEN default ELSE val

\* kwargs.get(key): a missing key reads as None
GetOrNone(val) == IF val.t = "missing" THEN PyNone ELSE val

\* truth value of a str-or-None
Truthy(val) == val.t = "str" /\ Len(val.v) > 0

Contains(s, c) == \E i \in 1..Len(s) : s[i] = c

RECURSIVE SplitFrom(_, _, _, _)
SplitFrom(s, sep, i, cur) ==
    IF i > Len(s) THEN <<cur>>
    ELSE IF s[i] = sep THEN <<cur>> \o SplitFrom(s, sep, i + 1, <<>>)
    ELSE SplitFrom(s, sep, i + 1, Append(cur, s[i]))

\* str.split(sep) for a one-character separator
Split(s, sep) == SplitFrom(s, sep, 1, <<>>)

Digits == {"0", "1", "2", "3", "4", "5", "6", "7", "8", "9"}

DigitVal(c) ==
    CASE c = "0" -> 0 [] c = "1" -> 1 [] c = "2" -> 2 [] c = "3" -> 3
      [] c = "4" -> 4 [] c = "5" -> 5 [] c = "6" -> 6 [] c = "7" -> 7
      [] c = "8" -> 8 [] c = "9" -> 9

\* int(s) raises ValueError unless s is a non-empty run of digits
IntOk(s) == Len(s) > 0 /\ \A i \in 1..Len(s) : s[i] \in Digits

RECURSIVE IntOf(_)
IntOf(s) == IF Len(s) = 0 THEN 0
            ELSE 10 * IntOf(SubSeq(s, 1, Len(s) - 1)) + DigitVal(s[Len(s)])

Min(a, b) == IF a < b THEN a ELSE b
Max(a, b) == IF a > b THEN a ELSE b

\* range(lo, hi) as a sequence
Range(lo, hi) == [k \in 1..Max(hi - lo, 0) |-> lo + k - 1]

\* list[start:end] on a list of n items, as the sequence of indices taken
SliceIdx(n, start, end) ==
    LET s == IF start < 0 THEN Max(start + n, 0) ELSE Min(start, n)
        e == IF end < 0 THEN Max(end + n, 0) ELSE Min(end, n)
    IN Range(s, e)

\* list[i]: a negative index counts from the end; IndexError outside
IndexOk(n, i) == -n <= i /\ i < n
IndexOf(n, i) == IF i < 0 THEN i + n ELSE i

RECURSIVE SeqsUpTo(_, _)
SeqsUpTo(S, n) ==
    IF n = 0 THEN {<<>>}
    ELSE LET shorter == SeqsUpTo(S, n - 1)
         IN shorter \cup {Append(s, x) : s \in {t \in shorter : Len(t) = n - 1}, x \in S}

(***************************************************************************)
(* The extractor's world                                                   *)
(***************************************************************************)
Methods == {"tabula", "camelot", "pdfplumber", "pypdf2"}

\* values of the 'method' option
MethodArgs == Methods \cup {"auto"}

\* what a library call does: it raises, or returns a list of tables
LibOutcomes(n) ==
    {[raised |-> TRUE, tables |-> <<>>]}
        \cup {[raised |-> FALSE, tables |-> t] : t \in SeqsUpTo(BOOLEAN, n)}

NoSuchFile ==
    [exists |-> FALSE, signature_ok |-> FALSE, num_pages |-> 0,
     tabula_probe |-> [raised |-> TRUE, tables |-> <<>>],
     camelot_probe |-> [raised |-> TRUE, tables |-> <<>>],
     lib |-> [raised |-> TRUE, tables |-> <<>>]]

Docs ==
    {NoSuchFile} \cup
    [exists : {TRUE}, signature_ok : BOOLEAN, num_pages : {MaxPages},
     tabula_probe : LibOutcomes(MaxProbeTables),
     camelot_probe : LibOutcomes(MaxTables),
     lib : LibOutcomes(MaxTables)]

Availabilities == {a \in [Methods -> BOOLEAN] : a["pypdf2"]}

\* values of the 'pages' option the callers pass
PageArgs == {PyMissing, PyNone, PyStr(<<"1", "-", "2">>)}

NonEmptyCount(tables) == Cardinality({i \in 1..Len(tables) : ~tables[i]})

LibCall(backend, kind, arg, raised, pages) ==
    [backend |-> backend, kind |-> kind, arg |-> arg, raised |-> raised, pages |-> pages]

(***************************************************************************)
(* PDFExtractor._detect_best_method                                        *)
(***************************************************************************)
\* the tabula probe without the .empty test on the first table
TabulaProbeAccepts_AnyTable(p) == ~p.raised /\ Len(p.tables) > 0

\* test_tables and len(test_tables) > 0 and not test_tables[0].empty
TabulaProbeAccepts(p) == ~p.raised /\ Len(p.tables) > 0 /\ ~p.tables[1]

\* the camelot probe testing only that a list came back
CamelotProbeAccepts_NotNone(p) == ~p.raised

\* test_tables and len(test_tables) > 0
CamelotProbeAccepts(p) == ~p.raised /\ Len(p.tables) > 0

TabulaProbeCall(d) ==
    LibCall("tabula", "probe", PyStr(<<"1">>), d.tabula_probe.raised, <<>>)

CamelotProbeCall(d) ==
    LibCall("camelot", "probe", PyStr(<<"1">>), d.camelot_probe.raised, <<>>)

\* the selection without its exception handlers: a raising probe ends it
_detect_best_method_Propagating(avail, d) ==
    LET c1 == IF avail["tabula"] THEN <<TabulaProbeCall(d)>> ELSE <<>>
        c2 == IF avail["camelot"] THEN c1 \o <<CamelotProbeCall(d)>> ELSE c1
    IN IF avail["tabula"] /\ d.tabula_probe.raised
         THEN [raised |-> TRUE, method |-> "", calls |-> c1]
       ELSE IF avail["tabula"] /\ TabulaProbeAccepts(d.tabula_probe)
         THEN [raised |-> FALSE, method |-> "tabula", calls |-> c1]
       ELSE IF avail["camelot"] /\ d.camelot_probe.raised
         THEN [raised |-> TRUE, method |-> "", calls |-> c2]
       ELSE IF avail["camelot"] /\ CamelotProbeAccepts(d.camelot_probe)
         THEN [raised |-> FALSE, method |-> "camelot", calls |-> c2]
       ELSE IF avail["pdfplumber"]
         THEN [raised |-> FALSE, method |-> "pdfplumber", calls |-> c2]
       ELSE [raised |-> FALSE, method |-> "pypdf2", calls |-> c2]

\* try: probe tabula, then camelot, each under its own "except: pass"; then
\* pdfplumber if available, else pypdf2; "except Exception" returns pypdf2
_detect_best_method(avail, d) ==
    LET c1 == IF avail["tabula"] THEN <<TabulaProbeCall(d)>> ELSE <<>>
        c2 == IF avail["camelot"] THEN c1 \o <<CamelotProbeCall(d)>> ELSE c1
    IN IF avail["tabula"] /\ TabulaProbeAccepts(d.tabula_probe)
         THEN [raised |-> FALSE, method |-> "tabula", calls |-> c1]
       ELSE IF avail["camelot"] /\ CamelotProbeAccepts(d.camelot_probe)
         THEN [raised |-> FALSE, method |-> "camelot", calls |-> c2]
       ELSE IF avail["pdfplumber"]
         THEN [raised |-> FALSE, method |-> "pdfplumber", calls |-> c2]
       ELSE [raised |-> FALSE, method |-> "pypdf2", calls |-> c2]

(***************************************************************************)
(* Page selection of the pdfplumber and PyPDF2 backends                    *)
(***************************************************************************)
PagesOk(idx) == [raised |-> FALSE, exc |-> "", idx |-> idx]
PagesRaise(exc) == [raised |-> TRUE, exc |-> exc, idx |-> <<>>]

\* start, end = pages_range.split('-'); start = int(start) - 1 if start else 0;
\* end = int(end) if end != 'end' else <number of pages>
RangeBounds(n, s) ==
    LET parts == Split(s, "-")
    IN IF Len(parts) # 2 THEN [raised |-> TRUE, start |-> 0, end |-> 0]
       ELSE IF Len(parts[1]) > 0 /\ ~IntOk(parts[1])
         THEN [raised |-> TRUE, start |-> 0, end |-> 0]
       ELSE IF parts[2] # S_end /\ ~IntOk(parts[2])
         THEN [raised |-> TRUE, start |-> 0, end |-> 0]
       ELSE [raised |-> FALSE,
             start |-> IF Len(parts[1]) > 0 THEN IntOf(parts[1]) - 1 ELSE 0,
             end |-> IF parts[2] # S_end THEN IntOf(parts[2]) ELSE n]

\* page_nums = [int(p) - 1 for p in pages_range.split(',')]
PageNums(s) ==
    LET parts == Split(s, ",")
    IN IF \E i \in 1..Len(parts) : ~IntOk(parts[i])
         THEN [raised |-> TRUE, nums |-> <<>>]
       ELSE [raised |-> FALSE, nums |-> [i \in 1..Len(parts) |-> IntOf(parts[i]) - 1]]

\* pages[i] for every i of idx, in order
Fetch(n, idx) ==
    IF \E k \in 1..Len(idx) : ~IndexOk(n, idx[k]) THEN PagesRaise("IndexError")
    ELSE PagesOk([k \in 1..Len(idx) |-> IndexOf(n, idx[k])])

\* the pages _extract_with_pdfplumber iterates over, as 0-based indices
PdfplumberPages(n, pages_range) ==
    IF ~Truthy(pages_range) THEN PagesOk(Range(0, n))
    ELSE IF Contains(pages_range.v, "-") THEN
        LET b == RangeBounds(n, pages_range.v)
        IN IF b.raised THEN PagesRaise("ValueError")
           ELSE PagesOk(SliceIdx(n, b.start, b.end))
    ELSE
        LET p == PageNums(pages_range.v)
        IN IF p.raised THEN PagesRaise("ValueError")
           ELSE Fetch(n, SelectSeq(p.nums, LAMBDA i : i < n))

\* the pages _extract_with_pypdf2 iterates over, as 0-based indices
Pypdf2Pages(n, pages_range) ==
    IF ~Truthy(pages_range) THEN PagesOk(Range(0, n))
    ELSE IF Contains(pages_range.v, "-") THEN
        LET b == RangeBounds(n, pages_range.v)
        IN IF b.raised THEN PagesRaise("ValueError")
           ELSE Fetch(n, Range(b.start, Min(b.end, n)))
    ELSE
        LET p == PageNums(pages_range.v)
        IN IF p.raised THEN PagesRaise("ValueError")
           ELSE Fetch(n, SelectSeq(p.nums, LAMBDA i : i < n))

(***************************************************************************)
(* The four backends.  Each returns the dictionary it builds, or raises.   *)
(***************************************************************************)
NoData ==
    [tables |-> 0, method |-> "", pages |-> PyMissing,
     extraction_method |-> "", pages_processed |-> PyMissing]

Data(tables, method, pages) ==
    [tables |-> tables, method |-> method, pages |-> pages,
     extraction_method |-> "", pages_processed |-> PyMissing]

BackendOk(data, call) == [raised |-> FALSE, exc |-> "", data |-> data, call |-> call]
BackendRaise(exc, call) == [raised |-> TRUE, exc |-> exc, data |-> NoData, call |-> call]

_extract_with_tabula(d, kwargs) ==
    LET pages == Get(kwargs.pages, PyStr(S_all))
        call == LibCall("tabula", "extract", pages, d.lib.raised, <<>>)
    IN IF d.lib.raised THEN BackendRaise("LibraryError", call)
       ELSE IF Len(d.lib.tables) = 0
         THEN BackendOk(Data(0, "tabula", PyMissing), call)
       ELSE BackendOk(Data(NonEmptyCount(d.lib.tables), "tabula", pages), call)

_extract_with_camelot(d, kwargs) ==
    LET pages == Get(kwargs.pages, PyStr(S_1_end))
        call == LibCall("camelot", "extract", pages, d.lib.raised, <<>>)
    IN IF d.lib.raised THEN BackendRaise("LibraryError", call)
       ELSE IF Len(d.lib.tables) = 0
         THEN BackendOk(Data(0, "camelot", PyMissing), call)
       ELSE BackendOk(Data(NonEmptyCount(d.lib.tables), "camelot", pages), call)

_extract_with_pdfplumber(d, kwargs) ==
    LET pages_range == GetOrNone(kwargs.pages)
        sel == PdfplumberPages(d.num_pages, pages_range)
    IN IF d.lib.raised
         THEN BackendRaise("LibraryError",
                           LibCall("pdfplumber", "extract", PyMissing, TRUE, <<>>))
       ELSE IF sel.raised
         THEN BackendRaise(sel.exc,
                           LibCall("pdfplumber", "extract", PyMissing, TRUE, <<>>))
       ELSE BackendOk(Data(Len(sel.idx) * NonEmptyCount(d.lib.tables), "pdfplumber",
                           IF Truthy(pages_range) THEN pages_range ELSE PyStr(S_all)),
                      LibCall("pdfplumber", "extract", PyMissing, FALSE, sel.idx))

_extract_with_pypdf2(d, kwargs) ==
    LET pages_range == GetOrNone(kwargs.pages)
        sel == Pypdf2Pages(d.num_pages, pages_range)
    IN IF d.lib.raised
         THEN BackendRaise("LibraryError",
                           LibCall("pypdf2", "extract", PyMissing, TRUE, <<>>))
       ELSE IF sel.raised
         THEN BackendRaise(sel.exc,
                           LibCall("pypdf2", "extract", PyMissing, TRUE, <<>>))
       ELSE BackendOk(Data(Len(sel.idx) * NonEmptyCount(d.lib.tables), "pypdf2", PyMissing),
                      LibCall("pypdf2", "extract", PyMissing, FALSE, sel.idx))

(***************************************************************************)
(* PDFExtractor.extract_data                                               *)
(***************************************************************************)
\* extract_data without the existence test
PathExists_Unchecked(d) == TRUE

\* pdf_path.exists()
PathExists(d) == d.exists

\* the dispatch without the availability tests
ChooseBackend_Unchecked(avail, method) ==
    IF method \in {"tabula", "camelot", "pdfplumber"} THEN method ELSE "pypdf2"

\* the if/elif chain that picks the backend function for a method name
ChooseBackend(avail, method) ==
    IF method = "tabula" /\ avail["tabula"] THEN "tabula"
    ELSE IF method = "camelot" /\ avail["camelot"] THEN "camelot"
    ELSE IF method = "pdfplumber" /\ avail["pdfplumber"] THEN "pdfplumber"
    ELSE "pypdf2"

Invoke(backend, d, kwargs) ==
    CASE backend = "tabula" -> _extract_with_tabula(d, kwargs)
      [] backend = "camelot" -> _extract_with_camelot(d, kwargs)
      [] backend = "pdfplumber" -> _extract_with_pdfplumber(d, kwargs)
      [] OTHER -> _extract_with_pypdf2(d, kwargs)

Raised(exc, sel, cs) ==
    [kind |-> "raise", exc |-> exc, data |-> NoData, selected |-> sel, calls |-> cs]

Returned(data, sel, cs) ==
    [kind |-> "return", exc |-> "", data |-> data, selected |-> sel, calls |-> cs]

\* the handler without its "raise": the error is logged and an empty result returned
OnExtractionError_Swallowed(exc, sel, cs) == Returned(NoData, sel, cs)

\* except Exception as e: log the error, then re-raise it
OnExtractionError(exc, sel, cs) == Raised(exc, sel, cs)

\* extracted_data.update({... 'extraction_method': method,
\*                        'pages_processed': extracted_data.get('pages', 'all')})
AddMetadata(data, method) ==
    [data EXCEPT !.extraction_method = method,
                 !.pages_processed = Get(data.pages, PyStr(S_all))]

extract_data(avail, d, kwargs) ==
    IF ~PathExists(d) THEN Raised("FileNotFoundError", "", <<>>)
    ELSE
        LET det == IF kwargs.method = "auto" THEN _detect_best_method(avail, d)
                   ELSE [raised |-> FALSE, method |-> kwargs.method, calls |-> <<>>]
            sel == IF kwargs.method = "auto" THEN det.method ELSE ""
        IN IF det.raised THEN OnExtractionError("LibraryError", "", det.calls)
           ELSE
             LET r == Invoke(ChooseBackend(avail, det.method), d, kwargs)
                 cs == det.calls \o <<r.call>>
             IN IF r.raised THEN OnExtractionError(r.exc, sel, cs)
                ELSE Returned(AddMetadata(r.data, det.method), sel, cs)

(***************************************************************************)
(* State machine                                                           *)
(***************************************************************************)
NoRequest == [op |-> "none", method |-> "", pages |-> PyMissing]

\* no DataFrame has been handed to the cleaning, merging or CSV code
PipelineIdle ==
    /\ frames = <<>>
    /\ job = [op |-> "none"]
    /\ ret = [kind |-> "none"]

\* no command line run, no ConfigManager, no saved file and no window
CliIdle == cli = [phase |-> "none"]
ConfigIdle == config = [op |-> "none"]
DiskIdle == disk = [op |-> "none"]
GuiIdle == gui = [op |-> "none"]

AppIdle == CliIdle /\ ConfigIdle /\ DiskIdle /\ GuiIdle

Init ==
    /\ available_methods \in Availabilities
    /\ doc \in Docs
    /\ request = NoRequest
    /\ selected = ""
    /\ outcome = [kind |-> "none", exc |-> "", data |-> NoData]
    /\ calls = <<>>
    /\ PipelineIdle
    /\ AppIdle

\* a caller invokes extract_data(pdf_path, method=..., pages=...)
ExtractData(method, pages) ==
    LET r == extract_data(available_methods, doc, [method |-> method, pages |-> pages])
    IN /\ request' = [op |-> "extract_data", method |-> method, pages |-> pages]
       /\ selected' = r.selected
       /\ outcome' = [kind |-> r.kind, exc |-> r.exc, data |-> r.data]
       /\ calls' = r.calls
       /\ UNCHANGED <<available_methods, doc>>
       /\ UNCHANGED pipelineVars
       /\ UNCHANGED appVars

\* a caller invokes _detect_best_method(pdf_path) directly
DetectBestMethod ==
    LET r == _detect_best_method(available_methods, doc)
    IN /\ request' = [op |-> "_detect_best_method", method |-> "", pages |-> PyMissing]
       /\ selected' = IF r.raised THEN "" ELSE r.method
       /\ outcome' = [kind |-> IF r.raised THEN "raise" ELSE "return",
                      exc |-> IF r.raised THEN "LibraryError" ELSE "",
                      data |-> NoData]
       /\ calls' = r.calls
       /\ UNCHANGED <<available_methods, doc>>
       /\ UNCHANGED pipelineVars
       /\ UNCHANGED appVars

Next ==
    \/ \E method \in MethodArgs, pages \in PageArgs : ExtractData(method, pages)
    \/ DetectBestMethod

Spec == Init /\ [][Next]_vars

(***************************************************************************)
(* Page selection on its own: every short selector over digits, '-' and    *)
(* ',', and the 'a-end' forms, on documents of 0..MaxPages pages, through  *)
(* the two backends that interpret the selector themselves.                *)
(***************************************************************************)
PageChars == {"0", "1", "2", "-", ","}

PageSelectors ==
    {PyStr(s) : s \in SeqsUpTo(PageChars, MaxSelLen) \ {<<>>}}
        \cup {PyStr(<<c, "-">> \o S_end) : c \in {"0", "1", "2"}}

PagedDocs ==
    [exists : {TRUE}, signature_ok : {TRUE}, num_pages : 0..MaxPages,
     tabula_probe : {[raised |-> FALSE, tables |-> <<>>]},
     camelot_probe : {[raised |-> FALSE, tables |-> <<>>]},
     lib : {[raised |-> FALSE, tables |-> <<FALSE>>]}]

InitPages ==
    /\ available_methods = [m \in Methods |-> TRUE]
    /\ doc \in PagedDocs
    /\ request = NoRequest
    /\ selected = ""
    /\ outcome = [kind |-> "none", exc |-> "", data |-> NoData]
    /\ calls = <<>>
    /\ PipelineIdle
    /\ AppIdle

NextPages ==
    \E method \in {"pdfplumber", "pypdf2"}, pages \in PageSelectors :
        ExtractData(method, pages)

SpecPages == InitPages /\ [][NextPages]_vars

(***************************************************************************)
(* Observations the properties are stated over                             *)
(***************************************************************************)
OptionalMethods == {"tabula", "camelot", "pdfplumber"}

\* a method selection ran: a direct call, or 'auto' on a file that exists
SelectionRan ==
    \/ request.op = "_detect_best_method"
    \/ request.op = "extract_data" /\ request.method = "auto" /\ doc.exists

ProbeOf(backend) == IF backend = "tabula" THEN doc.tabula_probe ELSE doc.camelot_probe

\* the probe returned normally with at least one non-empty table
YieldsNonEmptyTable(p) == ~p.raised /\ \E i \in 1..Len(p.tables) : ~p.tables[i]

\* the probe raised or returned no table at all
YieldsNothing(p) == p.raised \/ Len(p.tables) = 0

ProbeCalls == SelectSeq(calls, LAMBDA c : c.kind = "probe")
ExtractCalls == SelectSeq(calls, LAMBDA c : c.kind = "extract")

ProbedBackends == {calls[i].backend : i \in {j \in 1..Len(calls) : calls[j].kind = "probe"}}

\* the optional backends in priority order
Priority == <<"tabula", "camelot", "pdfplumber">>

\* C1 as stated: the selected optional backend was probed and its probe yielded
\* a non-empty table, and no backend earlier in the priority order did
C1_AsStated ==
    SelectionRan =>
        \A k \in 1..Len(Priority) :
            selected = Priority[k] =>
                /\ selected \in ProbedBackends
                /\ YieldsNonEmptyTable(ProbeOf(selected))
                /\ \A j \in 1..(k - 1) :
                       ~(available_methods[Priority[j]]
                         /\ YieldsNonEmptyTable(ProbeOf(Priority[j])))

\* C1 (amended): with 'auto', tabula and then camelot are probed on page 1, each
\* only if available; tabula is returned iff its probe returns a list whose first
\* table is non-empty, otherwise camelot iff its probe returns at least one table,
\* otherwise pdfplumber, unprobed, iff it is available, otherwise pypdf2
C1_AutoSelection ==
    SelectionRan =>
        LET tab == /\ available_methods["tabula"]
                   /\ ~doc.tabula_probe.raised
                   /\ Len(doc.tabula_probe.tables) > 0
                   /\ ~doc.tabula_probe.tables[1]
            cam == /\ available_methods["camelot"]
                   /\ ~doc.camelot_probe.raised
                   /\ Len(doc.camelot_probe.tables) > 0
        IN /\ selected = "tabula" <=> tab
           /\ selected = "camelot" <=> (~tab /\ cam)
           /\ selected = "pdfplumber" <=> (~tab /\ ~cam /\ available_methods["pdfplumber"])
           /\ selected = "pypdf2" <=> (~tab /\ ~cam /\ ~available_methods["pdfplumber"])
           /\ "pdfplumber" \notin ProbedBackends
           /\ \A i \in 1..Len(ProbeCalls) : ProbeCalls[i].arg = PyStr(<<"1">>)
           /\ \A i, j \in 1..Len(ProbeCalls) :
                  (ProbeCalls[i].backend = "camelot" /\ ProbeCalls[j].backend = "tabula")
                      => j < i

\* C1 witness: tabula's probe returned an empty first table followed by a
\* non-empty one, camelot's probe returned nothing, and pdfplumber was selected
C1_Witness ==
    /\ request.op = "_detect_best_method"
    /\ available_methods = [m \in Methods |-> TRUE]
    /\ doc.tabula_probe = [raised |-> FALSE, tables |-> <<TRUE, FALSE>>]
    /\ doc.camelot_probe = [raised |-> FALSE, tables |-> <<>>]
    /\ Len(ProbeCalls) = 2
    /\ selected = "pdfplumber"

\* C2 as stated: if no optional backend is available, or every probe made failed
\* to yield a non-empty table, the selection is pypdf2
C2_AsStated ==
    (SelectionRan
        /\ \A i \in 1..Len(ProbeCalls) : ~YieldsNonEmptyTable(ProbeOf(ProbeCalls[i].backend)))
    => selected = "pypdf2"

\* C2 (amended): with 'auto', when every probe made raises or returns no table,
\* the selection is pypdf2 if pdfplumber is unavailable (in particular when no
\* optional backend is available) and pdfplumber if it is available
C2_Fallback ==
    (SelectionRan
        /\ \A i \in 1..Len(ProbeCalls) : YieldsNothing(ProbeOf(ProbeCalls[i].backend)))
    => /\ ~available_methods["pdfplumber"] => selected = "pypdf2"
       /\ available_methods["pdfplumber"] => selected = "pdfplumber"
       /\ (\A m \in OptionalMethods : ~available_methods[m])
              => (selected = "pypdf2" /\ ProbeCalls = <<>>)

\* C2 witness: tabula's probe raised, camelot's returned no table, pdfplumber is
\* not available, and pypdf2 was selected
C2_Witness ==
    /\ SelectionRan
    /\ available_methods["tabula"] /\ available_methods["camelot"]
    /\ ~available_methods["pdfplumber"]
    /\ doc.tabula_probe.raised
    /\ ~doc.camelot_probe.raised /\ Len(doc.camelot_probe.tables) = 0
    /\ Len(ProbeCalls) = 2
    /\ selected = "pypdf2"

\* an explicit request for an optional backend that is not available, on a
\* file that exists
ExplicitUnavailable ==
    /\ request.op = "extract_data"
    /\ request.method \in OptionalMethods
    /\ ~available_methods[request.method]
    /\ doc.exists

\* C3 as stated: an explicit request for an unavailable backend raises a
\* backend-unavailable error and extracts with no backend
C3_AsStated ==
    ExplicitUnavailable =>
        /\ outcome.kind = "raise"
        /\ outcome.exc = "BackendUnavailable"
        /\ ExtractCalls = <<>>

\* C3 (amended): an explicit request for an unavailable backend raises no
\* backend-unavailable error; extract_data falls back to the pypdf2 text backend,
\* the only backend it invokes, and returns that backend's result
C3_FallsBackToText ==
    ExplicitUnavailable =>
        /\ Len(calls) = 1
        /\ calls[1].kind = "extract" /\ calls[1].backend = "pypdf2"
        /\ outcome.exc # "BackendUnavailable"
        /\ outcome.kind = "raise" <=> calls[1].raised
        /\ outcome.kind = "return" => outcome.data.method = "pypdf2"

\* C3 witness: tabula was requested while unavailable and a pypdf2 result came back
C3_Witness ==
    /\ ExplicitUnavailable
    /\ request.method = "tabula"
    /\ outcome.kind = "return"
    /\ outcome.data.method = "pypdf2"

\* C4: when the backend invoked for the real extraction raises, extract_data
\* raises that error, returns no result and invokes nothing after it
C4_ExtractionErrorPropagates ==
    \A i \in 1..Len(calls) :
        (request.op = "extract_data" /\ calls[i].kind = "extract" /\ calls[i].raised)
            => /\ outcome.kind = "raise"
               /\ outcome.exc \in {"LibraryError", "ValueError", "IndexError"}
               /\ outcome.data = NoData
               /\ i = Len(calls)
               /\ Len(ExtractCalls) = 1

\* C4 witness: an available tabula was chosen by auto-detection and its real
\* extraction raised; the call ended in that error
C4_Witness ==
    /\ request.op = "extract_data"
    /\ selected = "tabula"
    /\ Len(calls) = 2
    /\ calls[2].kind = "extract" /\ calls[2].backend = "tabula" /\ calls[2].raised
    /\ outcome.kind = "raise"
    /\ outcome.exc = "LibraryError"

\* C5: a method selection always returns one of the four method identifiers,
\* whatever the probes do: a direct call returns, and extract_data goes on to
\* the real extraction with the method selected
C5_ProbeErrorsAbsorbed ==
    SelectionRan =>
        /\ selected \in Methods
        /\ request.op = "_detect_best_method" => outcome.kind = "return"
        /\ request.op = "extract_data" => Len(ExtractCalls) = 1
        /\ \A i \in 1..Len(calls) : (calls[i].kind = "probe" /\ calls[i].raised)
               => i < Len(calls) \/ outcome.kind = "return"

\* C5 witness: both probes raised and the selection still returned a method
C5_Witness ==
    /\ request.op = "_detect_best_method"
    /\ Len(calls) = 2
    /\ calls[1].raised /\ calls[2].raised
    /\ outcome.kind = "return"
    /\ selected \in Methods

\* C6: extract_data on a path that does not exist raises FileNotFoundError
\* before any probe or backend is invoked, for every requested method
C6_MissingFile ==
    (request.op = "extract_data" /\ ~doc.exists)
        => /\ outcome.kind = "raise"
           /\ outcome.exc = "FileNotFoundError"
           /\ calls = <<>>
           /\ selected = ""

\* C6 witness: 'auto' was requested on a missing path with every backend available
C6_Witness ==
    /\ request.op = "extract_data"
    /\ request.method = "auto"
    /\ ~doc.exists
    /\ available_methods = [m \in Methods |-> TRUE]
    /\ outcome.exc = "FileNotFoundError"

\* C7 as stated: extract_data on an existing file that fails the PDF-signature
\* check fails with an invalid-format error and invokes no backend
C7_AsStated ==
    (request.op = "extract_data" /\ doc.exists /\ ~doc.signature_ok)
        => /\ outcome.kind = "raise"
           /\ outcome.exc = "InvalidFormat"
           /\ calls = <<>>

\* C8 as stated: in every result returned, 'extraction_method' and 'method'
\* both name the backend that was invoked to produce the tables
C8_AsStated ==
    (request.op = "extract_data" /\ outcome.kind = "return")
        => /\ outcome.data.extraction_method = calls[Len(calls)].backend
           /\ outcome.data.method = calls[Len(calls)].backend

\* C9 as stated: in every result returned, 'pages_processed' equals the page
\* selector the caller supplied
C9_AsStated ==
    (request.op = "extract_data" /\ outcome.kind = "return" /\ request.pages.t = "str")
        => outcome.data.pages_processed = request.pages

\* a selector of the form 'a-b' with a a page number and b a page number or 'end'
IsRangeSelector(s) ==
    /\ Contains(s, "-")
    /\ Len(Split(s, "-")) = 2
    /\ IntOk(Split(s, "-")[1])
    /\ (IntOk(Split(s, "-")[2]) \/ Split(s, "-")[2] = S_end)

\* a selector of the form 'p1,p2,...' of page numbers
IsListSelector(s) ==
    /\ ~Contains(s, "-")
    /\ \A i \in 1..Len(Split(s, ",")) : IntOk(Split(s, ",")[i])

\* the 1-based pages a selector denotes on a document of n pages
DenotedPages(n, s) ==
    IF IsRangeSelector(s) THEN
        LET a == IntOf(Split(s, "-")[1])
            b == IF Split(s, "-")[2] = S_end THEN n ELSE IntOf(Split(s, "-")[2])
        IN Range(Max(a, 1), Min(b, n) + 1)
    ELSE
        LET listed == [i \in 1..Len(Split(s, ",")) |-> IntOf(Split(s, ",")[i])]
        IN SelectSeq(listed, LAMBDA q : 1 <= q /\ q <= n)

\* the 1-based pages the backend of the last call processed, in order
ProcessedPages ==
    LET c == calls[Len(calls)] IN [k \in 1..Len(c.pages) |-> c.pages[k] + 1]

\* C10 as stated: for the pdfplumber and pypdf2 backends a range selector
\* processes exactly the existing pages a..b in ascending order and a list
\* selector exactly the listed page numbers that lie in 1..N, in listed order
C10_AsStated ==
    (/\ request.op = "extract_data"
     /\ request.method \in {"pdfplumber", "pypdf2"}
     /\ request.pages.t = "str"
     /\ IsRangeSelector(request.pages.v) \/ IsListSelector(request.pages.v))
    => /\ outcome.kind = "return"
       /\ ProcessedPages = DenotedPages(doc.num_pages, request.pages.v)

(***************************************************************************)
(* DataFrames.  A table is its column labels and its rows; a cell is a     *)
(* text, None or NaN (the backends hand over text cells and missing        *)
(* cells; numeric columns are not modelled).  pd.NA appears only inside    *)
(* the merged-data cleaning.                                               *)
(***************************************************************************)
NaN == [t |-> "nan", v |-> <<>>]
PdNA == [t |-> "NA", v |-> <<>>]

\* pd.isna on one cell
IsNull(c) == c.t \in {"None", "nan", "NA"}

EmptyFrame == [columns |-> <<>>, rows |-> <<>>]

\* characters str.strip() removes
Whitespace == {" ", "\n", "\t"}

\* str.strip()
Strip(s) ==
    LET keep == {i \in 1..Len(s) : s[i] \notin Whitespace}
    IN IF keep = {} THEN <<>>
       ELSE SubSeq(s, CHOOSE i \in keep : \A k \in keep : i <= k,
                      CHOOSE i \in keep : \A k \in keep : i >= k)

\* the positions of 1..n that are in S, in increasing order
Positions(n, S) == SelectSeq([j \in 1..n |-> j], LAMBDA j : j \in S)

\* the table restricted to the columns at the positions idx, in that order
TakeColumns(df, idx) ==
    [columns |-> [k \in 1..Len(idx) |-> df.columns[idx[k]]],
     rows |-> [i \in 1..Len(df.rows) |->
                  [k \in 1..Len(idx) |-> df.rows[i][idx[k]]]]]

\* df.dropna(how='all'): rows with at least one non-null cell
DropNaRows(df) ==
    [df EXCEPT !.rows = SelectSeq(df.rows,
        LAMBDA r : \E j \in 1..Len(r) : ~IsNull(r[j]))]

\* df.dropna(axis=1, how='all'): columns with at least one non-null cell
DropNaColumns(df) ==
    TakeColumns(df, Positions(Len(df.columns),
        {j \in 1..Len(df.columns) :
            \E i \in 1..Len(df.rows) : ~IsNull(df.rows[i][j])}))

\* astype(str) on one cell of an object column
AsTypeStr(c) ==
    CASE c.t = "None" -> <<"N", "o", "n", "e">>
      [] c.t = "nan" -> <<"n", "a", "n">>
      [] c.t = "NA" -> <<"<", "N", "A", ">">>
      [] OTHER -> c.v

S_nan == <<"n", "a", "n">>

\* the column at position j has dtype object
IsObjectColumn(df, j) ==
    \/ df.rows = <<>>
    \/ \E i \in 1..Len(df.rows) : df.rows[i][j].t \in {"str", "None", "NA"}

\* df[col] = cells: the same table with the column at position j replaced
SetColumn(df, j, cells) ==
    [df EXCEPT !.rows = [i \in 1..Len(df.rows) |->
        [df.rows[i] EXCEPT ![j] = cells[i]]]]

\* df[col] is a DataFrame, not a Series, when the label occurs twice
LabelIsDuplicated(df, j) ==
    \E k \in 1..Len(df.columns) : k # j /\ df.columns[k] = df.columns[j]

(***************************************************************************)
(* PDFExtractor._clean_dataframe                                           *)
(***************************************************************************)
\* the cell cleaning with the 'nan' replacement ahead of the strip
CleanCell_ReplaceFirst(c) ==
    LET s == AsTypeStr(c)
    IN PyStr(IF s = S_nan THEN <<>> ELSE Strip(s))

\* astype(str).str.strip() and then replace('nan', '')
CleanCell(c) ==
    LET s == Strip(AsTypeStr(c))
    IN PyStr(IF s = S_nan THEN <<>> ELSE s)

\* the loop over df.columns from position j on; df[col].dtype raises on a
\* duplicated label and the handler returns the table as it then stands
RECURSIVE CleanColumnsFrom(_, _)
CleanColumnsFrom(df, j) ==
    IF j > Len(df.columns) THEN [raised |-> FALSE, df |-> df]
    ELSE IF LabelIsDuplicated(df, j) THEN [raised |-> TRUE, df |-> df]
    ELSE IF IsObjectColumn(df, j)
         THEN CleanColumnsFrom(SetColumn(df, j,
                  [i \in 1..Len(df.rows) |-> CleanCell(df.rows[i][j])]), j + 1)
         ELSE CleanColumnsFrom(df, j + 1)

_clean_dataframe(df) ==
    LET dropped == DropNaColumns(DropNaRows(df))
        renamed == [dropped EXCEPT !.columns =
                       [j \in 1..Len(dropped.columns) |-> Strip(dropped.columns[j])]]
    IN CleanColumnsFrom(renamed, 1)

(***************************************************************************)
(* The cleaning on its own: every small raw table, cleaned repeatedly as   *)
(* "df = self._clean_dataframe(df)".                                       *)
(***************************************************************************)
MaxCols == 2
MaxCells == 4
MaxCleanings == 2

RawLabels == {<<"A">>, <<" ", "A">>, <<"B">>}

RawCells == {PyNone, NaN, PyStr(<<" ">>), PyStr(<<"n", "a", "n">>),
             PyStr(<<" ", "n", "a", "n">>), PyStr(<<" ", "a">>)}

\* the tables of r rows and c columns over the given labels and cells
FramesOfShape(r, c, labels, cells) ==
    {[columns |-> cs, rows |-> rs] :
        cs \in [1..c -> labels], rs \in [1..r -> [1..c -> cells]]}

RawFrames ==
    UNION {IF r * c <= MaxCells
           THEN FramesOfShape(r, c, RawLabels, RawCells) ELSE {} :
              r \in 0..MaxCells, c \in 0..MaxCols}

ExtractorIdle ==
    /\ available_methods = [m \in Methods |-> FALSE]
    /\ doc = NoSuchFile
    /\ request = NoRequest
    /\ selected = ""
    /\ outcome = [kind |-> "none", exc |-> "", data |-> NoData]
    /\ calls = <<>>

InitClean ==
    /\ ExtractorIdle
    /\ AppIdle
    /\ frames \in {<<df>> : df \in RawFrames}
    /\ job = [op |-> "none", n |-> 0]
    /\ ret = [kind |-> "none", warned |-> FALSE, df |-> EmptyFrame]

\* df = self._clean_dataframe(df), on the raw table and then on its own result
CleanDataframe ==
    /\ job.n < MaxCleanings
    /\ LET r == _clean_dataframe(IF job.n = 0 THEN frames[1] ELSE ret.df)
       IN ret' = [kind |-> "return", warned |-> r.raised, df |-> r.df]
    /\ job' = [op |-> "_clean_dataframe", n |-> job.n + 1]
    /\ UNCHANGED frames
    /\ UNCHANGED extractorVars
    /\ UNCHANGED appVars

NextClean == CleanDataframe

SpecClean == InitClean /\ [][NextClean]_vars

\* C11: normalizing an already normalized table changes nothing.
C11_Idempotent == [][job.n >= 1 => ret'.df = ret.df]_vars

\* the second cleaning ran on a table the first one had changed in its cells
C11_Witness ==
    /\ job.n = 2
    /\ ~ret.warned
    /\ Len(ret.df.rows) = Len(frames[1].rows)
    /\ ret.df.columns = frames[1].columns
    /\ ret.df # frames[1]

\* a cell shown as empty text
IsEmptyText(c) == c.t = "str" /\ c.v = <<>>

\* C12 as stated: after normalization no row is empty in all its cells and
\* no column is empty in all its cells.
C12_AsStated ==
    (job.n >= 1 /\ ~ret.warned) =>
        /\ \A i \in 1..Len(ret.df.rows) :
              \E j \in 1..Len(ret.df.columns) : ~IsEmptyText(ret.df.rows[i][j])
        /\ \A j \in 1..Len(ret.df.columns) :
              \E i \in 1..Len(ret.df.rows) : ~IsEmptyText(ret.df.rows[i][j])

(***************************************************************************)
(* pandas operations used by CSVConverter                                  *)
(***************************************************************************)
PyBool(b) == [t |-> "bool", v |-> b]

\* truth value of a bool option
IsTrue(val) == val.t = "bool" /\ val.v

\* code points of the characters that occur in labels
Ord(c) ==
    CASE c = " " -> 32 [] c = "A" -> 65 [] c = "B" -> 66
      [] c = "C" -> 67 [] c = "D" -> 68 [] OTHER -> 120

\* a < b on str
StrLess(a, b) ==
    \E k \in 1..(Len(a) + 1) :
        /\ \A i \in 1..(k - 1) : i <= Len(b) /\ a[i] = b[i]
        /\ k <= Len(b)
        /\ (k = Len(a) + 1 \/ Ord(a[k]) < Ord(b[k]))

\* sorted(list(S))
RECURSIVE Sorted(_)
Sorted(S) ==
    IF S = {} THEN <<>>
    ELSE LET least == CHOOSE a \in S : \A b \in S \ {a} : StrLess(a, b)
         IN <<least>> \o Sorted(S \ {least})

\* the elements of a sequence
Elems(q) == {q[i] : i \in 1..Len(q)}

\* Index.is_unique
IsUnique(labels) ==
    \A i, j \in 1..Len(labels) : labels[i] = labels[j] => i = j

\* the labels of q, each once, in order of first appearance
RECURSIVE FirstAppearance(_, _)
FirstAppearance(q, seen) ==
    IF q = <<>> THEN <<>>
    ELSE IF Head(q) \in seen THEN FirstAppearance(Tail(q), seen)
    ELSE <<Head(q)>> \o FirstAppearance(Tail(q), seen \cup {Head(q)})

RECURSIVE Flatten(_)
Flatten(qs) == IF qs = <<>> THEN <<>> ELSE Head(qs) \o Flatten(Tail(qs))

\* position of a label in a list of unique labels that contains it
PosOf(labels, l) == CHOOSE j \in 1..Len(labels) : labels[j] = l

\* table.reindex(columns=labels, fill_value=fill) on a table with unique labels
Reindex(df, labels, fill) ==
    [columns |-> labels,
     rows |-> [i \in 1..Len(df.rows) |->
                 [k \in 1..Len(labels) |->
                     IF labels[k] \in Elems(df.columns)
                     THEN df.rows[i][PosOf(df.columns, labels[k])]
                     ELSE fill]]]

\* the columns of pd.concat keeping only those of the first table
ConcatColumns_FirstOnly(tables) == tables[1].columns

\* the columns of pd.concat(tables, sort=False): the common labels when all
\* tables carry the same ones, else every label in order of first appearance
ConcatColumns(tables) ==
    IF \A i \in 1..Len(tables) : tables[i].columns = tables[1].columns
    THEN tables[1].columns
    ELSE FirstAppearance(Flatten([i \in 1..Len(tables) |-> tables[i].columns]), {})

\* pd.concat(tables, ignore_index=True, sort=False): raises on an empty list
\* and when a table with a repeated label has to be realigned
PdConcat(tables) ==
    IF tables = <<>> THEN [raised |-> TRUE, df |-> EmptyFrame]
    ELSE LET cols == ConcatColumns(tables)
         IN IF \E i \in 1..Len(tables) :
                   tables[i].columns # cols /\ ~IsUnique(tables[i].columns)
            THEN [raised |-> TRUE, df |-> EmptyFrame]
            ELSE [raised |-> FALSE,
                  df |-> [columns |-> cols,
                          rows |-> Flatten([i \in 1..Len(tables) |->
                              IF tables[i].columns = cols THEN tables[i].rows
                              ELSE Reindex(tables[i], cols, NaN).rows])]]

\* a row as drop_duplicates compares it: missing values are all alike
RowKey(r) == [j \in 1..Len(r) |-> IF IsNull(r[j]) THEN NaN ELSE r[j]]

\* the elements of q at the positions idx, in that order
SelectAt(q, idx) == [k \in 1..Len(idx) |-> q[idx[k]]]

\* df.drop_duplicates(): the first of each group of equal rows is kept
DropDuplicates(df) ==
    [df EXCEPT !.rows = SelectAt(df.rows,
        Positions(Len(df.rows),
            {i \in 1..Len(df.rows) :
                \A k \in 1..(i - 1) : RowKey(df.rows[k]) # RowKey(df.rows[i])}))]

(***************************************************************************)
(* CSVConverter._union_tables, _clean_merged_data, _merge_tables           *)
(***************************************************************************)
\* what a call hands back: it raises, or returns the table df, which is the
\* caller's own object tables[alias] when alias > 0 and a new object when
\* alias = 0; logged tells that an error was caught and logged on the way
Outcome(kind, df, alias, logged) ==
    [kind |-> kind, df |-> df, alias |-> alias, logged |-> logged]

\* the union without the sort of the labels
UnionColumns_Unsorted(tables) ==
    FirstAppearance(Flatten([i \in 1..Len(tables) |-> tables[i].columns]), {})

\* all_columns = sorted(list(all_columns))
UnionColumns(tables) ==
    Sorted(UNION {Elems(tables[i].columns) : i \in 1..Len(tables)})

_union_tables(tables) ==
    IF tables = <<>> THEN Outcome("return", EmptyFrame, 0, FALSE)
    ELSE IF \A i \in 1..Len(tables) : IsUnique(tables[i].columns)
    THEN LET all_columns == UnionColumns(tables)
             aligned_tables == [i \in 1..Len(tables) |->
                                   Reindex(tables[i], all_columns, PyStr(<<>>))]
         IN Outcome("return", PdConcat(aligned_tables).df, 0, FALSE)
    ELSE \* reindex raises on a repeated label; the handler concatenates
         LET c == PdConcat(tables)
         IN IF c.raised THEN Outcome("raise", EmptyFrame, 0, TRUE)
            ELSE Outcome("return", c.df, 0, TRUE)

\* strip, replace('nan', ''), replace('', pd.NA) on one cell
CleanMergedCell(c) ==
    LET s == Strip(AsTypeStr(c))
    IN IF s = S_nan \/ s = <<>> THEN PdNA ELSE PyStr(s)

\* the loop over the object columns from position j on; .str raises on a
\* repeated label and the handler returns the table as it then stands
RECURSIVE CleanMergedColumnsFrom(_, _)
CleanMergedColumnsFrom(df, j) ==
    IF j > Len(df.columns) THEN [raised |-> FALSE, df |-> df]
    ELSE IF ~IsObjectColumn(df, j) THEN CleanMergedColumnsFrom(df, j + 1)
    ELSE IF LabelIsDuplicated(df, j) THEN [raised |-> TRUE, df |-> df]
    ELSE CleanMergedColumnsFrom(SetColumn(df, j,
             [i \in 1..Len(df.rows) |-> CleanMergedCell(df.rows[i][j])]), j + 1)

\* the cleaning with duplicates removed only on an explicit clean_data=True
CleanDataDefault_Off == PyBool(FALSE)

\* kwargs.get('clean_data', True)
CleanDataDefault == PyBool(TRUE)

_clean_merged_data(df, kwargs) ==
    LET clean_data == Get(kwargs.clean_data, CleanDataDefault)
        skip_empty == Get(kwargs.skip_empty, PyBool(TRUE))
        cleaned == IF IsTrue(clean_data)
                   THEN CleanMergedColumnsFrom(DropDuplicates(df), 1)
                   ELSE [raised |-> FALSE, df |-> df]
    IN IF cleaned.raised THEN cleaned.df
       ELSE IF IsTrue(skip_empty) THEN DropNaRows(cleaned.df)
       ELSE cleaned.df

\* the handler of _merge_tables without the test for an empty list
MergeFallback_FirstTable(tables) ==
    IF tables = <<>> THEN Outcome("raise", EmptyFrame, 0, TRUE)
    ELSE Outcome("return", tables[1], 1, TRUE)

\* return tables[0] if tables else pd.DataFrame()
MergeFallback(tables) ==
    IF tables = <<>> THEN Outcome("return", EmptyFrame, 0, TRUE)
    ELSE Outcome("return", tables[1], 1, TRUE)

_merge_tables(tables, kwargs) ==
    LET merge_method == Get(kwargs.merge_method, PyStr(<<"c", "o", "n", "c", "a", "t">>))
        concat == PdConcat(tables)
        merged == IF merge_method.v = <<"u", "n", "i", "o", "n">>
                  THEN _union_tables(tables)
                  ELSE Outcome(IF concat.raised THEN "raise" ELSE "return",
                               concat.df, 0, FALSE)
    IN IF merged.kind = "raise" THEN MergeFallback(tables)
       ELSE Outcome("return", _clean_merged_data(merged.df, kwargs), 0, FALSE)

(***************************************************************************)
(* The merger on its own: every list of up to MaxFrames small tables, with *)
(* equal, different, overlapping and repeated labels, merged once under    *)
(* every combination of options; and the two one-row tables with columns   *)
(* A, B and C, D.                                                          *)
(***************************************************************************)
MaxFrames == 2

L_A == <<"A">>
L_B == <<"B">>
L_C == <<"C">>
L_D == <<"D">>

MergeLabels == {<<L_A>>, <<L_B>>, <<L_A, L_B>>, <<L_B, L_A>>, <<L_A, L_A>>}

MergeCells == {PyStr(<<"x">>), PyStr(<<" ", "x">>), PyStr(<<>>)}

\* the tables with the labels cs, cells from cells and a number of rows
\* from heights
FramesWithLabels(cs, cells, heights) ==
    {[columns |-> cs, rows |-> rs] :
        rs \in UNION {[1..r -> [1..Len(cs) -> cells]] : r \in heights}}

\* tables of no row or one row
MergeFrames ==
    {EmptyFrame} \cup UNION {FramesWithLabels(cs, MergeCells, {0, 1}) : cs \in MergeLabels}

DisjointPair ==
    <<[columns |-> <<L_A, L_B>>, rows |-> <<<<PyStr(<<"x">>), PyStr(<<"x">>)>>>>],
      [columns |-> <<L_C, L_D>>, rows |-> <<<<PyStr(<<"x">>), PyStr(<<"x">>)>>>>]>>

MergeInputs == SeqsUpTo(MergeFrames, MaxFrames) \cup {DisjointPair}

S_concat == <<"c", "o", "n", "c", "a", "t">>
S_union == <<"u", "n", "i", "o", "n">>

MergeKwargs ==
    [merge_method : {PyMissing, PyStr(S_concat), PyStr(S_union), PyStr(<<"x">>)},
     clean_data : {PyMissing, PyBool(TRUE), PyBool(FALSE)},
     skip_empty : {PyMissing, PyBool(TRUE), PyBool(FALSE)}]

NoKwargs == [merge_method |-> PyMissing, clean_data |-> PyMissing,
             skip_empty |-> PyMissing]

InitMerge ==
    /\ ExtractorIdle
    /\ AppIdle
    /\ frames \in MergeInputs
    /\ job = [op |-> "none", kwargs |-> NoKwargs]
    /\ ret = Outcome("none", EmptyFrame, 0, FALSE)

\* a caller invokes _merge_tables(tables, **kwargs)
MergeTables(kwargs) ==
    /\ job.op = "none"
    /\ job' = [op |-> "_merge_tables", kwargs |-> kwargs]
    /\ ret' = _merge_tables(frames, kwargs)
    /\ UNCHANGED frames
    /\ UNCHANGED extractorVars
    /\ UNCHANGED appVars

\* a caller invokes _union_tables(tables)
UnionTables ==
    /\ job.op = "none"
    /\ job' = [op |-> "_union_tables", kwargs |-> NoKwargs]
    /\ ret' = _union_tables(frames)
    /\ UNCHANGED frames
    /\ UNCHANGED extractorVars
    /\ UNCHANGED appVars

NextMerge ==
    \/ \E kwargs \in MergeKwargs : MergeTables(kwargs)
    \/ UnionTables

SpecMerge == InitMerge /\ [][NextMerge]_vars

(***************************************************************************)
(* Observations on a merge                                                 *)
(***************************************************************************)
Merged == job.op = "_merge_tables"
Unioned == job.op = "_union_tables"

UnionPolicy == job.kwargs.merge_method.t = "str" /\ job.kwargs.merge_method.v = S_union

IsFalse(val) == val.t = "bool" /\ ~val.v

\* neither duplicate removal nor empty-row removal was asked for or defaulted
CleaningOff == IsFalse(job.kwargs.clean_data) /\ IsFalse(job.kwargs.skip_empty)

\* every input table satisfies the Table invariant of unique labels
LabelsUnique == \A i \in 1..Len(frames) : IsUnique(frames[i].columns)

AllInputLabels == UNION {Elems(frames[i].columns) : i \in 1..Len(frames)}

InputRows == Flatten([i \in 1..Len(frames) |-> frames[i].rows])

\* number of input rows ahead of the rows of table i
Offset(i) == Len(Flatten([k \in 1..(i - 1) |-> frames[k].rows]))

\* row r of input table i sits at its stacked position in the merged table,
\* cell by cell under the merged labels, with fill where the table has no
\* such column
RowCarried(i, r, fill) ==
    LET out == ret.df.rows[Offset(i) + r]
    IN \A k \in 1..Len(ret.df.columns) :
          \/ /\ frames[i].columns = ret.df.columns
             /\ out[k] = frames[i].rows[r][k]
          \/ /\ frames[i].columns # ret.df.columns
             /\ ret.df.columns[k] \in Elems(frames[i].columns)
             /\ out[k] = frames[i].rows[r][PosOf(frames[i].columns, ret.df.columns[k])]
          \/ /\ ret.df.columns[k] \notin Elems(frames[i].columns)
             /\ out[k] = fill

RowsStacked(fill) ==
    /\ Len(ret.df.rows) = Len(InputRows)
    /\ \A i \in 1..Len(frames) : \A r \in 1..Len(frames[i].rows) :
          RowCarried(i, r, fill)

\* C13 as stated: a concatenate merge has the first table's column set and
\* stacks all input rows, whatever the column sets of the inputs.
C13_AsStated ==
    (Merged /\ ~UnionPolicy /\ CleaningOff /\ LabelsUnique /\ frames # <<>>) =>
        /\ Elems(ret.df.columns) = Elems(frames[1].columns)
        /\ Len(ret.df.rows) = Len(InputRows)

\* C13: a concatenate merge keeps the first table's columns and appends the
\* labels found only in later tables, in order of first appearance; with
\* the cleaning off its rows are the input rows in input order, missing
\* where a table lacks a column; if the concatenation fails it returns the
\* first table alone.
C13_ConcatKeepsAllColumns ==
    (Merged /\ ~UnionPolicy /\ frames # <<>>) =>
        IF ret.logged THEN ret.df = frames[1] /\ ~LabelsUnique
        ELSE /\ Elems(ret.df.columns) = AllInputLabels
             /\ SubSeq(ret.df.columns, 1, Len(frames[1].columns)) = frames[1].columns
             /\ LabelsUnique =>
                   /\ IsUnique(ret.df.columns)
                   /\ \A i, j \in 1..Len(frames) : \A a \in Elems(frames[i].columns) :
                         \A b \in Elems(frames[j].columns) \ UNION {Elems(frames[k].columns) : k \in 1..i} :
                             PosOf(ret.df.columns, a) < PosOf(ret.df.columns, b)
             /\ CleaningOff => RowsStacked(NaN)

\* two tables with different labels, a row each, concatenated with the cleaning off
C13_Witness ==
    /\ Merged /\ ~UnionPolicy /\ CleaningOff /\ ~ret.logged
    /\ Len(frames) = 2
    /\ LabelsUnique
    /\ Elems(frames[2].columns) \ Elems(frames[1].columns) # {}
    /\ Len(frames[1].rows) = 1 /\ Len(frames[2].rows) = 1
    /\ Len(ret.df.columns) > Len(frames[1].columns)

\* consecutive labels are in strictly increasing order
IsSorted(labels) == \A k \in 1..(Len(labels) - 1) : StrLess(labels[k], labels[k + 1])

Stacked == IF UnionPolicy THEN _union_tables(frames).df ELSE PdConcat(frames).df

\* clean_data is left to its default or passed as True
CleanDataOn == job.kwargs.clean_data.t = "missing" \/ IsTrue(job.kwargs.clean_data)

\* a row with a cell that is neither missing nor blank
HasContent(r) ==
    \E k \in 1..Len(r) : ~IsNull(r[k]) /\ Strip(AsTypeStr(r[k])) # <<>>

\* C15 as stated: with default options a merge keeps every input row that
\* has content, identical rows included.
C15_AsStated ==
    (Merged /\ job.kwargs = NoKwargs /\ ~ret.logged /\ LabelsUnique) =>
        Len(ret.df.rows) >= Len(SelectSeq(InputRows, HasContent))

\* C15: a merge removes the rows that repeat an earlier row cell for cell
\* unless the caller passes clean_data=False: by default and with
\* clean_data=True one row of each group of equal rows is left, and with
\* clean_data=False every row is kept.
C15_DuplicatesDroppedByDefault ==
    (Merged /\ ~ret.logged) =>
        /\ CleanDataOn =>
              /\ Len(ret.df.rows) <= Cardinality({RowKey(r) : r \in Elems(Stacked.rows)})
              /\ IsFalse(job.kwargs.skip_empty) =>
                    Len(ret.df.rows) = Cardinality({RowKey(r) : r \in Elems(Stacked.rows)})
        /\ CleaningOff => Len(ret.df.rows) = Len(InputRows)

\* two tables holding the same row with content, merged with default options
C15_Witness ==
    /\ Merged /\ job.kwargs = NoKwargs /\ ~ret.logged
    /\ Len(frames) = 2
    /\ frames[1] = frames[2]
    /\ Len(frames[1].rows) = 1
    /\ HasContent(frames[1].rows[1])
    /\ Len(ret.df.rows) = 1

\* C16: merging an empty list of tables returns the empty table and raises
\* nothing, under either policy.
C16_EmptyListMerge ==
    ((Merged \/ Unioned) /\ frames = <<>>) =>
        /\ ret.kind = "return"
        /\ ret.df.columns = <<>>
        /\ ret.df.rows = <<>>

\* the concatenation of no tables failed inside a merge and was absorbed
C16_Witness ==
    /\ Merged /\ ~UnionPolicy
    /\ frames = <<>>
    /\ ret.logged
    /\ ret.kind = "return"

\* C17 as stated: the table a merge returns is a new object, none of the
\* caller's tables.
C17_AsStated == Merged => ret.alias = 0

(***************************************************************************)
(* CSVConverter._dataframe_to_csv and convert_to_csv.  A CSV text is the   *)
(* sequence of its characters.                                             *)
(***************************************************************************)
\* na_rep='': the text written for a cell
CellText(c) == IF IsNull(c) THEN <<>> ELSE c.v

\* the writer that never quotes a field
NeedsQuote_Never(s, delim) == FALSE

\* csv.QUOTE_MINIMAL: the field holds the delimiter, the quote character or
\* a character of the line terminator
NeedsQuote(s, delim) == \E i \in 1..Len(s) : s[i] \in {delim, "\"", "\n"}

\* the field between quote characters, its own quote characters doubled
Quoted(s) ==
    <<"\"">> \o Flatten([i \in 1..Len(s) |->
                   IF s[i] = "\"" THEN <<"\"", "\"">> ELSE <<s[i]>>]) \o <<"\"">>

WriteField(s, delim) == IF NeedsQuote(s, delim) THEN Quoted(s) ELSE s

RECURSIVE Join(_, _)
Join(fields, delim) ==
    IF fields = <<>> THEN <<>>
    ELSE IF Len(fields) = 1 THEN Head(fields)
    ELSE Head(fields) \o <<delim>> \o Join(Tail(fields), delim)

\* writer.writerow: a record of one empty field is written as ""
WriteRow(texts, delim) ==
    LET line == Join([k \in 1..Len(texts) |-> WriteField(texts[k], delim)], delim)
    IN (IF line = <<>> /\ Len(texts) > 0 THEN <<"\"", "\"">> ELSE line) \o <<"\n">>

\* df.to_csv(output, sep=delimiter, index=False, header=header_row, na_rep='',
\*           quoting=csv.QUOTE_MINIMAL)
ToCsv(df, delim, header) ==
    (IF header THEN WriteRow(df.columns, delim) ELSE <<>>)
        \o Flatten([i \in 1..Len(df.rows) |->
              WriteRow([k \in 1..Len(df.rows[i]) |-> CellText(df.rows[i][k])], delim)])

\* the emptiness test left out
IsEmptyFrame_Never(df) == FALSE

\* df.empty
IsEmptyFrame(df) == df.rows = <<>> \/ df.columns = <<>>

\* a serialization returns the text csv or raises
CsvOutcome(kind, csv) == [kind |-> kind, csv |-> csv]

\* to_csv rejects a separator that is not one character
_dataframe_to_csv(df, delimiter, header_row) ==
    IF IsEmptyFrame(df) THEN CsvOutcome("return", <<>>)
    ELSE IF Len(delimiter.v) # 1 THEN CsvOutcome("raise", <<>>)
    ELSE CsvOutcome("return", ToCsv(df, delimiter.v[1], IsTrue(header_row)))

\* the conversion that merges whenever there are several tables
ShouldMerge_Always(tables, kwargs) == Len(tables) > 1

\* merge_tables = kwargs.get('merge_tables', len(tables) > 1);
\* if merge_tables and len(tables) > 1
ShouldMerge(tables, kwargs) ==
    IsTrue(Get(kwargs.merge_tables, PyBool(Len(tables) > 1))) /\ Len(tables) > 1

convert_to_csv(tables, kwargs) ==
    IF tables = <<>> THEN CsvOutcome("return", <<>>)
    ELSE LET delimiter == Get(kwargs.delimiter, PyStr(<<",">>))
             header_row == Get(kwargs.header_row, PyBool(TRUE))
         IN IF ShouldMerge(tables, kwargs)
            THEN _dataframe_to_csv(_merge_tables(tables, kwargs).df, delimiter, header_row)
            ELSE _dataframe_to_csv(tables[1], delimiter, header_row)

(***************************************************************************)
(* pd.read_csv(StringIO(csv_data)) and CSVConverter.validate_csv_data      *)
(***************************************************************************)
\* the tokenizer's record of what it has read: the field and the record
\* under construction and the finished records
TokStart == [state |-> "START_RECORD", field |-> <<>>, record |-> <<>>,
             records |-> <<>>]

EndField(st) == [st EXCEPT !.record = Append(st.record, st.field),
                           !.field = <<>>, !.state = "START_FIELD"]

EndLine(st) == [st EXCEPT !.records = Append(st.records, st.record),
                          !.record = <<>>, !.state = "START_RECORD"]

Push(st, c, state) == [st EXCEPT !.field = Append(st.field, c), !.state = state]

\* the line starting at position i: whether it holds blanks only, and where
\* the next line starts
LineAt(text, i) ==
    LET ends == {j \in i..Len(text) : text[j] = "\n"}
        stop == IF ends = {} THEN Len(text) + 1
                ELSE CHOOSE j \in ends : \A k \in ends : j <= k
    IN [blank |-> \A j \in i..(stop - 1) : text[j] \in {" ", "\t"},
        next |-> stop + 1]

\* one character c read in the state st
TokStep(st, c, delim) ==
    CASE st.state \in {"START_RECORD", "START_FIELD"} ->
            IF c = "\n" THEN EndLine(EndField(st))
            ELSE IF c = "\"" THEN [st EXCEPT !.state = "IN_QUOTED_FIELD"]
            ELSE IF c = delim THEN EndField(st)
            ELSE Push(st, c, "IN_FIELD")
      [] st.state = "IN_FIELD" ->
            IF c = "\n" THEN EndLine(EndField(st))
            ELSE IF c = delim THEN EndField(st)
            ELSE Push(st, c, "IN_FIELD")
      [] st.state = "IN_QUOTED_FIELD" ->
            IF c = "\"" THEN [st EXCEPT !.state = "QUOTE_IN_QUOTED_FIELD"]
            ELSE Push(st, c, "IN_QUOTED_FIELD")
      [] OTHER ->
            IF c = "\"" THEN Push(st, c, "IN_QUOTED_FIELD")
            ELSE IF c = delim THEN EndField(st)
            ELSE IF c = "\n" THEN EndLine(EndField(st))
            ELSE Push(st, c, "IN_FIELD")

\* the records of the text from position i on; with skip_blank_lines an
\* empty line and a line of blanks are passed over; the input ending inside
\* a quoted field is an error
RECURSIVE Tokenize(_, _, _, _, _)
Tokenize(text, i, st, delim, skip_blank_lines) ==
    IF i > Len(text)
    THEN CASE st.state = "START_RECORD" -> [err |-> FALSE, records |-> st.records]
           [] st.state = "IN_QUOTED_FIELD" -> [err |-> TRUE, records |-> st.records]
           [] OTHER -> [err |-> FALSE, records |-> EndLine(EndField(st)).records]
    ELSE IF st.state = "START_RECORD" /\ text[i] = "\n"
    THEN Tokenize(text, i + 1,
                  IF skip_blank_lines THEN st ELSE EndLine(st),
                  delim, skip_blank_lines)
    ELSE IF /\ st.state = "START_RECORD" /\ skip_blank_lines
            /\ text[i] \in {" ", "\t"} /\ text[i] # delim
            /\ LineAt(text, i).blank
    THEN Tokenize(text, LineAt(text, i).next, st, delim, skip_blank_lines)
    ELSE Tokenize(text, i + 1, TokStep(st, text[i], delim), delim, skip_blank_lines)

\* the texts read_csv takes for a missing value, among those that occur here
IsNaText(s) == s = <<>> \/ s = S_nan

\* the fields of a data record under the header: short records are padded,
\* surplus leading fields become the index
UnderHeader(record, width, ncols) ==
    LET padded == record \o [k \in 1..(width - Len(record)) |-> <<>>]
    IN SubSeq(padded, width - ncols + 1, width)

\* pd.read_csv(StringIO(csv_data)): the first record is the header; a record
\* from the second data line on with more fields than its predecessor (after
\* padding) is an error, and so is a text without any record
PdReadCsv(text) ==
    LET tok == Tokenize(text, 1, TokStart, ",", TRUE)
        header == tok.records[1]
        data == Tail(tok.records)
        width == IF data = <<>> THEN Len(header)
                 ELSE Max(Len(header), Len(data[1]))
    IN IF tok.err \/ tok.records = <<>> THEN [raised |-> TRUE, df |-> EmptyFrame]
       ELSE IF \E k \in 2..Len(data) : Len(data[k]) > width
       THEN [raised |-> TRUE, df |-> EmptyFrame]
       ELSE [raised |-> FALSE,
             df |-> [columns |-> header,
                     rows |-> [k \in 1..Len(data) |->
                        LET fields == UnderHeader(data[k], width, Len(header))
                        IN [j \in 1..Len(header) |->
                              IF IsNaText(fields[j]) THEN NaN ELSE PyStr(fields[j])]]]]

\* the report validate_csv_data returns; counted tells that the counts are
\* part of it
Report(valid, errors, warnings, counted, df, empty_cells, inconsistent_rows) ==
    [valid |-> valid, errors |-> errors, warnings |-> warnings,
     counted |-> counted,
     row_count |-> Len(df.rows), column_count |-> Len(df.columns),
     empty_cells |-> empty_cells,
     total_cells |-> Len(df.rows) * Len(df.columns),
     inconsistent_rows |-> inconsistent_rows]

NoReport == Report(FALSE, {}, {}, FALSE, EmptyFrame, 0, <<>>)

validate_csv_data(csv_data) ==
    IF csv_data = <<>>
    THEN Report(FALSE, {"Empty CSV data"}, {}, FALSE, EmptyFrame, 0, <<>>)
    ELSE LET read == PdReadCsv(csv_data)
             df == read.df
             empty_cols == {j \in 1..Len(df.columns) :
                               \A i \in 1..Len(df.rows) : IsNull(df.rows[i][j])}
             total_cells == Len(df.rows) * Len(df.columns)
             empty_cells == Cardinality({<<i, j>> \in (1..Len(df.rows)) \X (1..Len(df.columns)) :
                                            IsNull(df.rows[i][j])})
             lines == Split(Strip(csv_data), "\n")
             first_row_cols == Len(Split(lines[1], ","))
             inconsistent_rows ==
                 IF Len(lines) > 1
                 THEN Positions(Len(lines) - 1,
                          {i \in 1..(Len(lines) - 1) :
                              Len(Split(lines[i + 1], ",")) # first_row_cols})
                 ELSE <<>>
             errors == IF IsEmptyFrame(df) THEN {"CSV contains no data rows"} ELSE {}
             warnings ==
                 (IF empty_cols # {} THEN {"Empty columns found"} ELSE {})
                 \cup (IF total_cells > 0 /\ empty_cells * 10 > total_cells * 8
                       THEN {"Data appears to be very sparse"} ELSE {})
                 \cup (IF inconsistent_rows # <<>>
                       THEN {"Inconsistent column count in rows"} ELSE {})
         IN IF read.raised
            THEN Report(FALSE, {"CSV validation failed"}, {}, FALSE, EmptyFrame, 0, <<>>)
            ELSE Report(errors = {}, errors, warnings, TRUE, df, empty_cells,
                        SubSeq(inconsistent_rows, 1, Min(5, Len(inconsistent_rows))))

(***************************************************************************)
(* CSVConverter.preview_csv                                                *)
(***************************************************************************)
PyInt(n) == [t |-> "int", v |-> n]

\* main_table.head(n): the first n rows, or all but the last -n rows
Head_(df, n) ==
    [df EXCEPT !.rows = SubSeq(df.rows, 1,
        IF n >= 0 THEN Min(n, Len(df.rows)) ELSE Max(Len(df.rows) + n, 0))]

\* the dictionary preview_csv returns; failed tells that it is the one of
\* the exception handler
Stats(preview, df, total_tables, failed) ==
    [preview |-> preview, row_count |-> Len(df.rows),
     column_count |-> Len(df.columns), columns |-> df.columns,
     total_tables |-> total_tables, failed |-> failed]

\* self._dataframe_to_csv(preview_table, **kwargs): the keyword arguments of
\* preview_csv are passed on whole, and _dataframe_to_csv takes delimiter
\* and header_row only
AcceptsKwargs(kwargs) == kwargs.preview_rows.t = "missing"

preview_csv(tables, kwargs) ==
    IF tables = <<>> THEN Stats(<<>>, EmptyFrame, 0, FALSE)
    ELSE LET main_table == tables[1]
             preview_rows == Get(kwargs.preview_rows, PyInt(10))
             preview_table == Head_(main_table, preview_rows.v)
             csv_preview == _dataframe_to_csv(preview_table,
                                Get(kwargs.delimiter, PyStr(<<",">>)),
                                Get(kwargs.header_row, PyBool(TRUE)))
         IN IF ~AcceptsKwargs(kwargs) \/ csv_preview.kind = "raise"
            THEN Stats(<<>>, EmptyFrame, 0, TRUE)
            ELSE Stats(csv_preview.csv, main_table, Len(tables), FALSE)

(***************************************************************************)
(* The serializer and the validator on their own: every table of up to two *)
(* columns and two rows over cells that do and do not need quoting, short  *)
(* lists of tables, and the table of the Name, Age example; each converted *)
(* once under every combination of options and the output then validated. *)
(***************************************************************************)
CsvLabels == {<<L_A>>, <<L_A, L_B>>}

CsvCells == {PyStr(<<>>), PyStr(<<"x">>), PyStr(<<" ">>), PyStr(<<",">>),
             PyStr(<<";">>), PyStr(<<"\"">>), PyStr(<<"\n">>)}

\* tables of up to two rows
CsvFrames == UNION {FramesWithLabels(cs, CsvCells, {0, 1, 2}) : cs \in CsvLabels}

NameAgeFrame ==
    [columns |-> <<<<"N", "a", "m", "e">>, <<"A", "g", "e">>>>,
     rows |-> <<<<PyStr(<<"J", "o", "h", "n", " ", "D", "o", "e">>), PyStr(<<"2", "5">>)>>,
                <<PyStr(<<"J", "a", "n", "e", " ", "S", "m", "i", "t", "h">>), PyStr(<<"3", "0">>)>>>>]

NameAgeCsv ==
    <<"N", "a", "m", "e", ",", "A", "g", "e", "\n", "J", "o", "h", "n",
      " ", "D", "o", "e", ",", "2", "5", "\n", "J", "a", "n", "e", " ",
      "S", "m", "i", "t", "h", ",", "3", "0", "\n">>

\* the tables that short lists are made of
ListedFrames ==
    {EmptyFrame,
     [columns |-> <<L_A>>, rows |-> <<>>],
     [columns |-> <<L_A>>, rows |-> <<<<PyStr(<<"x">>)>>>>],
     [columns |-> <<L_B>>, rows |-> <<<<PyStr(<<"x">>)>>>>]}

\* the table of test_sparse_data_handling: 5 rows, 3 columns, 3 texts
SparseFrame ==
    [columns |-> <<<<"C", "o", "l", "1">>, <<"C", "o", "l", "2">>, <<"C", "o", "l", "3">>>>,
     rows |-> <<<<PyStr(<<"V", "a", "l", "u", "e", "1">>), PyNone, PyNone>>,
                <<PyNone, PyNone, PyNone>>,
                <<PyNone, PyStr(<<"V", "a", "l", "u", "e", "2">>), PyNone>>,
                <<PyNone, PyNone, PyNone>>,
                <<PyNone, PyNone, PyStr(<<"V", "a", "l", "u", "e", "3">>)>>>>]

CsvInputs ==
    {<<df>> : df \in CsvFrames \cup {NameAgeFrame, SparseFrame}}
        \cup SeqsUpTo(ListedFrames, MaxFrames)

CsvKwargs ==
    [delimiter : {PyMissing, PyStr(<<",">>), PyStr(<<";">>), PyStr(<<";", ";">>)},
     header_row : {PyMissing, PyBool(TRUE), PyBool(FALSE)},
     merge_tables : {PyMissing, PyBool(FALSE)},
     merge_method : {PyMissing}, clean_data : {PyMissing}, skip_empty : {PyMissing}]

NoCsvKwargs ==
    [delimiter |-> PyMissing, header_row |-> PyMissing, merge_tables |-> PyMissing,
     merge_method |-> PyMissing, clean_data |-> PyMissing, skip_empty |-> PyMissing]

InitCsv ==
    /\ ExtractorIdle
    /\ AppIdle
    /\ frames \in CsvInputs
    /\ job = [op |-> "none", kwargs |-> NoCsvKwargs]
    /\ ret = [kind |-> "none", csv |-> <<>>, report |-> NoReport]

\* a caller invokes convert_to_csv({'tables': tables}, **kwargs)
ConvertToCsv(kwargs) ==
    /\ job.op = "none"
    /\ job' = [op |-> "convert_to_csv", kwargs |-> kwargs]
    /\ LET r == convert_to_csv(frames, kwargs)
       IN ret' = [kind |-> r.kind, csv |-> r.csv, report |-> NoReport]
    /\ UNCHANGED frames
    /\ UNCHANGED extractorVars
    /\ UNCHANGED appVars

\* the caller hands the text it got to validate_csv_data
ValidateCsvData ==
    /\ job.op = "convert_to_csv"
    /\ ret.kind = "return"
    /\ job' = [job EXCEPT !.op = "validate_csv_data"]
    /\ ret' = [ret EXCEPT !.report = validate_csv_data(ret.csv)]
    /\ UNCHANGED frames
    /\ UNCHANGED extractorVars
    /\ UNCHANGED appVars

PreviewKwargs ==
    [preview_rows : {PyMissing, PyInt(1), PyInt(2)},
     delimiter : {PyMissing, PyStr(<<";">>)},
     header_row : {PyMissing, PyBool(FALSE)}]

\* a caller invokes preview_csv({'tables': tables}, **kwargs)
PreviewCsv(kwargs) ==
    /\ job.op = "none"
    /\ job' = [op |-> "preview_csv", kwargs |-> kwargs]
    /\ LET stats == preview_csv(frames, kwargs)
       IN ret' = [kind |-> "return", csv |-> stats.preview, report |-> NoReport,
                  stats |-> stats]
    /\ UNCHANGED frames
    /\ UNCHANGED extractorVars
    /\ UNCHANGED appVars

NextCsv ==
    \/ \E kwargs \in CsvKwargs : ConvertToCsv(kwargs)
    \/ ValidateCsvData
    \/ \E kwargs \in PreviewKwargs : PreviewCsv(kwargs)

SpecCsv == InitCsv /\ [][NextCsv]_vars

(***************************************************************************)
(* Observations on a serialization                                         *)
(***************************************************************************)
Converted == job.op = "convert_to_csv"
Validated == job.op = "validate_csv_data"

Delimiter == Get(job.kwargs.delimiter, PyStr(<<",">>)).v

HeaderOn == IsTrue(Get(job.kwargs.header_row, PyBool(TRUE)))

\* one table with rows went in and a text came out
SerializedOne ==
    /\ Converted
    /\ ret.kind = "return"
    /\ Len(frames) = 1
    /\ frames[1].rows # <<>>

\* the records a reader of delimiter-separated text with double-quote
\* quoting finds in the output
RecordsRead == Tokenize(ret.csv, 1, TokStart, Delimiter[1], FALSE)

\* the records the table stands for: its labels if the header is on, then
\* the cell texts of each row
RecordsMeant ==
    (IF HeaderOn THEN <<frames[1].columns>> ELSE <<>>)
        \o [i \in 1..Len(frames[1].rows) |->
               [k \in 1..Len(frames[1].columns) |-> CellText(frames[1].rows[i][k])]]

LineBreaks(text) == Cardinality({i \in 1..Len(text) : text[i] = "\n"})

C19_AsStated ==
    (Validated /\ Len(frames) = 1 /\ frames[1].rows # <<>>) =>
        /\ ret.report.counted
        /\ ret.report.row_count = Len(frames[1].rows)
        /\ ret.report.column_count = Len(frames[1].columns)

\* every table handed over has no rows
NoRowsIn == \A i \in 1..Len(frames) : frames[i].rows = <<>>

\* C20: converting a result without tables, or whose tables have no rows,
\* returns the empty text and raises nothing, header on or off.
C20_EmptyInputEmptyOutput ==
    (Converted /\ NoRowsIn) => ret.kind = "return" /\ ret.csv = <<>>

\* a table with a column but no row, converted with the header on and a
\* separator to_csv would reject
C20_Witness ==
    /\ Converted
    /\ Len(frames) = 1
    /\ frames[1].columns # <<>>
    /\ frames[1].rows = <<>>
    /\ HeaderOn
    /\ Len(Delimiter) # 1
    /\ ret.csv = <<>>

\* C21 as stated: validating the serialization of the 5 by 3 table with 3
\* texts reports 80 percent empty cells and warns that the data is sparse.
C21_AsStated ==
    (Validated /\ frames = <<SparseFrame>> /\ job.kwargs = NoCsvKwargs) =>
        /\ ret.report.counted
        /\ ret.report.empty_cells * 100 = 80 * ret.report.total_cells
        /\ "Data appears to be very sparse" \in ret.report.warnings

Previewed == job.op = "preview_csv"

\* the records of the preview: the labels, then the first min(k, N) rows
PreviewMeant(k) ==
    <<frames[1].columns>>
        \o [i \in 1..Min(k, Len(frames[1].rows)) |->
               [j \in 1..Len(frames[1].columns) |-> CellText(frames[1].rows[i][j])]]

\* C25 as stated: preview_csv with preview_rows = k on a first table of
\* N >= 1 rows and C columns returns row_count N, column_count C and the
\* header line followed by the first min(k, N) rows.
C25_AsStated ==
    (/\ Previewed
     /\ job.kwargs.preview_rows.t = "int"
     /\ job.kwargs.delimiter.t = "missing" /\ job.kwargs.header_row.t = "missing"
     /\ Len(frames) >= 1 /\ frames[1].rows # <<>>) =>
        /\ ret.stats.row_count = Len(frames[1].rows)
        /\ ret.stats.column_count = Len(frames[1].columns)
        /\ Tokenize(ret.stats.preview, 1, TokStart, ",", FALSE).records
              = PreviewMeant(job.kwargs.preview_rows.v)

\* C30: with merge_tables=False and two or more tables, the text returned is
\* the serialization of the first table alone: its labels if the header is
\* on and its rows, and nothing if it has no rows or no columns.
C30_FirstTableOnly ==
    (/\ Converted
     /\ IsFalse(job.kwargs.merge_tables)
     /\ Len(frames) >= 2
     /\ Len(Delimiter) = 1) =>
        /\ ret.kind = "return"
        /\ IF frames[1].rows = <<>> \/ frames[1].columns = <<>>
           THEN ret.csv = <<>>
           ELSE RecordsRead.records = RecordsMeant

\* two one-row tables with different labels, converted without merging
C30_Witness ==
    /\ Converted
    /\ IsFalse(job.kwargs.merge_tables)
    /\ Len(frames) = 2
    /\ frames[1].rows # <<>> /\ frames[2].rows # <<>>
    /\ frames[1].columns # frames[2].columns
    /\ ret.kind = "return"
    /\ Len(RecordsRead.records) = 2

(***************************************************************************)
(* The page selector under the backends                                    *)
(***************************************************************************)
\* the result of the other backend that reads the selector itself, on the
\* same document and the same keyword arguments
OtherBackend ==
    LET kwargs == [method |-> request.method, pages |-> request.pages]
    IN IF request.method = "pdfplumber" THEN _extract_with_pypdf2(doc, kwargs)
       ELSE _extract_with_pdfplumber(doc, kwargs)

\* C26 as stated: the selector is brought to one canonical form before the
\* backend is invoked, so a selector under which one backend returns a
\* result denotes the same set of pages under the other backend.
C26_AsStated ==
    (/\ request.op = "extract_data"
     /\ request.method \in {"pdfplumber", "pypdf2"}
     /\ outcome.kind = "return") =>
        /\ ~OtherBackend.raised
        /\ Elems(OtherBackend.call.pages) = Elems(calls[Len(calls)].pages)

(***************************************************************************)
(* The command line run (src/pdf_processor.py).  A PDF file is what the    *)
(* steps of process_single_pdf do on it: whether validate_pdf accepts it,  *)
(* whether extract_data returns data, a falsy value or raises, whether     *)
(* convert_to_csv returns a text, the empty text or raises, and whether    *)
(* the file system lets save_csv write.                                    *)
(***************************************************************************)
MaxFiles == 3

FileFate(valid, extract, csv, writable) ==
    [valid |-> valid, extract |-> extract, csv |-> csv, writable |-> writable]

FileFates ==
    {FileFate(TRUE, "data", "text", TRUE),
     FileFate(FALSE, "data", "text", TRUE),
     FileFate(TRUE, "raise", "text", TRUE),
     FileFate(TRUE, "falsy", "text", TRUE),
     FileFate(TRUE, "data", "raise", TRUE),
     FileFate(TRUE, "data", "empty", TRUE),
     FileFate(TRUE, "data", "text", FALSE)}

\* FileHandler.save_csv as process_single_pdf sees it: False for the empty
\* text and for a write that fails, True otherwise; it raises nothing
SaveCsvResult(f) == f.csv = "text" /\ f.writable

\* the except branch of process_single_pdf, left without returning
OnProcessingError_Propagating == "raise"

\* except Exception: log, print, return False
OnProcessingError == "False"

\* process_single_pdf(input_path, output_path, **kwargs) on file f; live_ok
\* tells whether the console lets the Progress display of this call start
\* (a display of process_batch may be live on the same console)
process_single_pdf(f, live_ok) ==
    IF ~f.valid THEN "False"
    ELSE IF ~live_ok THEN OnProcessingError
    ELSE IF f.extract = "raise" THEN OnProcessingError
    ELSE IF f.extract = "falsy" THEN "False"
    ELSE IF f.csv = "raise" THEN OnProcessingError
    ELSE IF SaveCsvResult(f) THEN "True"
    ELSE "False"

Results(success, failed, total) ==
    [success |-> success, failed |-> failed, total |-> total]

\* the options given on the command line: each is given or not
CliArgs == [input : BOOLEAN, output : BOOLEAN, input_dir : BOOLEAN, output_dir : BOOLEAN]

NoArgs == [input |-> FALSE, output |-> FALSE, input_dir |-> FALSE, output_dir |-> FALSE]

\* sys.exit(status), or the end of main (status 0)
Exited(c, status) == [c EXCEPT !.phase = "exited", !.status = status]

InitCli ==
    /\ ExtractorIdle
    /\ PipelineIdle
    /\ ConfigIdle /\ DiskIdle /\ GuiIdle
    /\ \E files \in SeqsUpTo(FileFates, MaxFiles) :
          cli = [phase |-> "start", args |-> NoArgs, dir |-> files,
                 nested_live |-> TRUE, pdf_files |-> <<>>, i |-> 0,
                 results |-> Results(0, 0, 0), failed_files |-> <<>>,
                 processed |-> [k \in 1..Len(files) |-> 0],
                 returned |-> FALSE, interrupted |-> FALSE, status |-> 0]

\* main up to the first file: the processor is built, the mode is chosen
\* from the options; in batch mode process_batch creates the output
\* directory and lists the PDF files of the input directory
Main(args, init_ok, mkdir_ok, nested_live) ==
    /\ cli.phase = "start"
    /\ LET c == [cli EXCEPT !.args = args, !.nested_live = nested_live]
       IN cli' =
            IF ~init_ok THEN Exited(c, 1)
            ELSE IF args.input_dir /\ args.output_dir THEN
                IF ~mkdir_ok THEN Exited(c, 1)
                ELSE IF c.dir = <<>>
                  THEN Exited([c EXCEPT !.returned = TRUE], 1)
                ELSE [c EXCEPT !.phase = "batch", !.pdf_files = c.dir,
                               !.results = Results(0, 0, Len(c.dir))]
            ELSE IF args.input /\ args.output THEN [c EXCEPT !.phase = "single"]
            ELSE Exited(c, 1)
    /\ UNCHANGED <<config, disk, gui>>
    /\ UNCHANGED extractorVars
    /\ UNCHANGED pipelineVars

\* the file --input names: the first file of the directory, or a path
\* that does not exist, which validate_pdf rejects
InputFile(c) ==
    IF c.dir = <<>> THEN FileFate(FALSE, "data", "text", TRUE) ELSE c.dir[1]

\* single file mode: process_single_pdf(input, output) and the exit status
ProcessSingle ==
    /\ cli.phase = "single"
    /\ LET success == process_single_pdf(InputFile(cli), TRUE)
           c == [cli EXCEPT !.results = Results(IF success = "True" THEN 1 ELSE 0,
                                                IF success = "True" THEN 0 ELSE 1, 1)]
       IN cli' = Exited(c, IF success = "True" THEN 0 ELSE 1)
    /\ UNCHANGED <<config, disk, gui>>
    /\ UNCHANGED extractorVars
    /\ UNCHANGED pipelineVars

\* one turn of the loop of process_batch
ProcessNext ==
    /\ cli.phase = "batch"
    /\ cli.i < Len(cli.pdf_files)
    /\ LET k == cli.i + 1
           success == process_single_pdf(cli.pdf_files[k], cli.nested_live)
           c == [cli EXCEPT !.processed[k] = @ + 1]
       IN cli' =
            IF success = "raise" THEN Exited(c, 1)
            ELSE IF success = "True"
              THEN [c EXCEPT !.i = k, !.results.success = @ + 1]
            ELSE [c EXCEPT !.i = k, !.results.failed = @ + 1,
                           !.failed_files = Append(@, k)]
    /\ UNCHANGED <<config, disk, gui>>
    /\ UNCHANGED extractorVars
    /\ UNCHANGED pipelineVars

\* the loop is over: process_batch shows and returns the results, and main
\* exits with 1 if no file succeeded
BatchReturn ==
    /\ cli.phase = "batch"
    /\ cli.i = Len(cli.pdf_files)
    /\ cli' = Exited([cli EXCEPT !.returned = TRUE],
                     IF cli.results.success = 0 THEN 1 ELSE 0)
    /\ UNCHANGED <<config, disk, gui>>
    /\ UNCHANGED extractorVars
    /\ UNCHANGED pipelineVars

\* the user interrupts the run: KeyboardInterrupt is no Exception, passes
\* process_single_pdf and process_batch and reaches main, which exits with 0
Interrupt ==
    /\ cli.phase \in {"single", "batch"}
    /\ cli' = Exited([cli EXCEPT !.interrupted = TRUE], 0)
    /\ UNCHANGED <<config, disk, gui>>
    /\ UNCHANGED extractorVars
    /\ UNCHANGED pipelineVars

NextCli ==
    \/ \E args \in CliArgs, init_ok \in BOOLEAN, mkdir_ok \in BOOLEAN,
          nested_live \in BOOLEAN : Main(args, init_ok, mkdir_ok, nested_live)
    \/ ProcessSingle
    \/ ProcessNext
    \/ BatchReturn
    \/ Interrupt

SpecCli == InitCli /\ [][NextCli]_vars

(***************************************************************************)
(* Observations on a run                                                   *)
(***************************************************************************)
\* process_batch has listed the files of the input directory
BatchFound == cli.phase # "none" /\ cli.pdf_files # <<>>

RunEnded == cli.phase = "exited"

\* C22: in batch mode every file found is processed once and in order, a
\* file that fails (by a False return or by an exception) is counted as
\* failed and the loop goes on, so that the batch ends only after the last
\* file unless the user interrupts it, and then success + failed == total ==
\* the number of files found.
C22_BatchIsolatesFailures ==
    BatchFound =>
        /\ cli.results.total = Len(cli.pdf_files)
        /\ cli.results.success + cli.results.failed = cli.i
        /\ \A k \in 1..Len(cli.pdf_files) :
              cli.processed[k] = IF k <= cli.i THEN 1 ELSE 0
        /\ \A k \in 1..cli.i :
              process_single_pdf(cli.pdf_files[k], cli.nested_live) # "True"
                  <=> \E j \in 1..Len(cli.failed_files) : cli.failed_files[j] = k
        /\ Len(cli.failed_files) = cli.results.failed
        /\ (RunEnded /\ ~cli.interrupted) =>
              /\ cli.returned
              /\ cli.i = Len(cli.pdf_files)
              /\ cli.results.success + cli.results.failed = cli.results.total

\* a batch of three files ended: extraction raised on the first, the second
\* was no PDF and the third was converted
C22_Witness ==
    /\ BatchFound /\ RunEnded /\ cli.returned
    /\ Len(cli.pdf_files) = 3
    /\ cli.pdf_files[1].extract = "raise"
    /\ ~cli.pdf_files[2].valid
    /\ cli.failed_files = <<1, 2>>
    /\ cli.results = Results(1, 2, 3)

\* C23 as stated: a run that ends with no file converted ends with a
\* non-zero exit status.
C23_AsStated ==
    (RunEnded /\ cli.results.success = 0) => cli.status # 0

(***************************************************************************)
(* ConfigManager (src/src/core/config_manager.py).  The configuration is   *)
(* a dictionary of scalars and of dictionaries of scalars.  dict.copy()    *)
(* copies one level, so the model keeps the objects apart: "default" is    *)
(* the dictionary __init__ builds, "copy" the latest dictionary made by    *)
(* copy(), and an entry that holds a dictionary names the object that owns *)
(* it.  A key is the list of its dot-separated components.                 *)
(***************************************************************************)
MaxOps == 3

TopKeys == {"extraction_method", "output_format", "custom"}
NestedKeys == {"delimiter", "encoding"}

\* no value under a key (get returns its default, None)
NoValue == "<none>"

Entry(t, v) == [t |-> t, v |-> v]
AbsentEntry == Entry("absent", "")
EmptyDict == [n \in NestedKeys |-> NoValue]

\* self.default_config as __init__ writes it, cut down to one scalar and
\* one nested dictionary
BuiltinTop ==
    [k \in TopKeys |->
        IF k = "extraction_method" THEN Entry("val", "auto")
        ELSE IF k = "output_format" THEN Entry("ref", "default")
        ELSE AbsentEntry]

BuiltinSub ==
    [k \in TopKeys |->
        IF k = "output_format"
        THEN [n \in NestedKeys |-> IF n = "delimiter" THEN "," ELSE "utf-8"]
        ELSE EmptyDict]

NoSubs == [k \in TopKeys |-> EmptyDict]

\* self.default_config.copy(): a new top-level dictionary with the entries
\* of default_config; the nested dictionaries are not copied, the entries
\* of the copy refer to those of default_config
copy_of_default(h) ==
    [h EXCEPT !.data = "copy",
              !.top["copy"] = h.top["default"],
              !.sub["copy"] = NoSubs]

load_default_config(h) == copy_of_default(h)

\* a parsed user document: not a dictionary, or a dictionary whose values
\* are scalars and dictionaries of scalars
UserEntry(t, v, d) == [t |-> t, v |-> v, d |-> d]
NotGiven == UserEntry("absent", "", EmptyDict)
UserDoc(isdict, method, output_format) ==
    [isdict |-> isdict,
     top |-> [k \in TopKeys |->
                 IF k = "extraction_method" THEN method
                 ELSE IF k = "output_format" THEN output_format
                 ELSE NotGiven]]

\* _merge_config(self.default_config, user): the merged dictionary becomes
\* config_data; when user is no dictionary user.items() raises and the
\* method returns default itself
_merge_config(h, user) ==
    IF ~user.isdict
    THEN [h EXCEPT !.data = "default",
                   !.top["copy"] = [k \in TopKeys |-> AbsentEntry],
                   !.sub["copy"] = NoSubs]
    ELSE LET default == h.top["default"]
             merged == [k \in TopKeys |->
                 IF user.top[k].t = "absent" THEN default[k]
                 ELSE IF user.top[k].t = "dict" THEN Entry("ref", "copy")
                 ELSE Entry("val", user.top[k].v)]
             subs == [k \in TopKeys |->
                 IF user.top[k].t # "dict" THEN EmptyDict
                 ELSE IF default[k].t = "ref"
                   THEN [n \in NestedKeys |->
                            IF user.top[k].d[n] # NoValue THEN user.top[k].d[n]
                            ELSE h.sub[default[k].v][k][n]]
                 ELSE user.top[k].d]
         IN [h EXCEPT !.data = "copy", !.top["copy"] = merged, !.sub["copy"] = subs]

\* the file load_config is pointed at
ConfigFile(exists, suffix, parses, user) ==
    [exists |-> exists, suffix |-> suffix, parses |-> parses, user |-> user]

LoadOk(file) ==
    file.exists /\ file.suffix \in {".json", ".yaml", ".yml"} /\ file.parses

\* load_config(config_path): the heap afterwards
load_config(h, file) ==
    IF LoadOk(file) THEN _merge_config(h, file.user) ELSE load_default_config(h)

\* set(key, value): navigate to the parent, creating {} for a missing key,
\* and assign; assigning into a scalar raises and changes nothing
set(h, key, value) ==
    LET o == h.data
        k == key[1]
        e == h.top[o][k]
    IN IF Len(key) = 1
       THEN [h EXCEPT !.top[o][k] = Entry("val", value),
                      !.sub[o][k] = IF e = Entry("ref", o) THEN EmptyDict ELSE @]
       ELSE IF e.t = "absent"
         THEN [h EXCEPT !.top[o][k] = Entry("ref", o),
                        !.sub[o][k] = [EmptyDict EXCEPT ![key[2]] = value]]
       ELSE IF e.t = "val" THEN h
       ELSE [h EXCEPT !.sub[e.v][k][key[2]] = value]

set_returns(h, key) == Len(key) = 1 \/ h.top[h.data][key[1]].t # "val"

\* update_settings(settings): set for every item, in order
RECURSIVE update_settings(_, _)
update_settings(h, settings) ==
    IF settings = <<>> THEN h
    ELSE update_settings(set(h, settings[1].key, settings[1].value), Tail(settings))

\* reset_to_defaults()
reset_to_defaults(h) == copy_of_default(h)

\* get(key): the value under the key, a dictionary, or None
get(h, key) ==
    LET e == h.top[h.data][key[1]]
    IN IF Len(key) = 1
       THEN (IF e.t = "val" THEN e.v ELSE IF e.t = "ref" THEN "<dict>" ELSE NoValue)
       ELSE IF e.t = "ref" THEN h.sub[e.v][key[1]][key[2]] ELSE NoValue

(***************************************************************************)
(* ConfigManager on its own: a manager built without a file, then up to    *)
(* MaxOps calls of load_config, set, update_settings and                   *)
(* reset_to_defaults.                                                      *)
(***************************************************************************)
SetKeys ==
    {<<"extraction_method">>, <<"output_format", "delimiter">>,
     <<"custom", "encoding">>}

SetValues == {"tabula", ";"}

Setting(key, value) == [key |-> key, value |-> value]

SettingsArgs ==
    {<<Setting(<<"output_format", "encoding">>, "latin-1")>>,
     <<Setting(<<"extraction_method">>, "camelot"),
       Setting(<<"output_format", "delimiter">>, "|")>>}

GivenDict(d) == UserEntry("dict", "", d)
GivenVal(v) == UserEntry("val", v, EmptyDict)

UserDocs ==
    {UserDoc(FALSE, NotGiven, NotGiven),
     UserDoc(TRUE, NotGiven, NotGiven),
     UserDoc(TRUE, GivenVal("pdfplumber"), NotGiven),
     UserDoc(TRUE, NotGiven, GivenDict([EmptyDict EXCEPT !["delimiter"] = "\t"])),
     UserDoc(TRUE, NotGiven, GivenVal("csv"))}

ConfigFiles ==
    {ConfigFile(TRUE, ".json", TRUE, u) : u \in UserDocs}
        \cup {ConfigFile(FALSE, ".json", TRUE, UserDoc(TRUE, NotGiven, NotGiven)),
              ConfigFile(TRUE, ".txt", TRUE, UserDoc(TRUE, NotGiven, NotGiven)),
              ConfigFile(TRUE, ".yaml", FALSE, UserDoc(TRUE, NotGiven, NotGiven))}

NoFile == ConfigFile(FALSE, "", FALSE, UserDoc(FALSE, NotGiven, NotGiven))

\* the objects after ConfigManager(): __init__ builds default_config and
\* calls load_default_config
Constructed ==
    load_default_config([data |-> "default",
                         top |-> [o \in {"default", "copy"} |->
                                     IF o = "default" THEN BuiltinTop
                                     ELSE [k \in TopKeys |-> AbsentEntry]],
                         sub |-> [o \in {"default", "copy"} |->
                                     IF o = "default" THEN BuiltinSub ELSE NoSubs]])

\* the state of the manager: its objects, the last call, what it returned,
\* the file it read and default_config as it was before the call
Manager(h, op, ok, file, n, before) ==
    [data |-> h.data, top |-> h.top, sub |-> h.sub,
     op |-> op, ok |-> ok, file |-> file, n |-> n, before |-> before]

\* default_config with its nested dictionaries, as a value
DefaultTree(h) == <<h.top["default"], h.sub["default"]>>

InitConfig ==
    /\ ExtractorIdle
    /\ PipelineIdle
    /\ CliIdle /\ DiskIdle /\ GuiIdle
    /\ config = Manager(Constructed, "__init__", TRUE, NoFile, 0, DefaultTree(Constructed))

LoadConfig(file) ==
    /\ config.n < MaxOps
    /\ config' = Manager(load_config(config, file), "load_config", LoadOk(file),
                         file, config.n + 1, DefaultTree(config))
    /\ UNCHANGED <<cli, disk, gui>>
    /\ UNCHANGED extractorVars
    /\ UNCHANGED pipelineVars

Set(key, value) ==
    /\ config.n < MaxOps
    /\ config' = Manager(set(config, key, value), "set", set_returns(config, key),
                         NoFile, config.n + 1, DefaultTree(config))
    /\ UNCHANGED <<cli, disk, gui>>
    /\ UNCHANGED extractorVars
    /\ UNCHANGED pipelineVars

UpdateSettings(settings) ==
    /\ config.n < MaxOps
    /\ config' = Manager(update_settings(config, settings), "update_settings", TRUE,
                         NoFile, config.n + 1, DefaultTree(config))
    /\ UNCHANGED <<cli, disk, gui>>
    /\ UNCHANGED extractorVars
    /\ UNCHANGED pipelineVars

ResetToDefaults ==
    /\ config.n < MaxOps
    /\ config' = Manager(reset_to_defaults(config), "reset_to_defaults", TRUE,
                         NoFile, config.n + 1, DefaultTree(config))
    /\ UNCHANGED <<cli, disk, gui>>
    /\ UNCHANGED extractorVars
    /\ UNCHANGED pipelineVars

NextConfig ==
    \/ \E file \in ConfigFiles : LoadConfig(file)
    \/ \E key \in SetKeys, value \in SetValues : Set(key, value)
    \/ \E settings \in SettingsArgs : UpdateSettings(settings)
    \/ ResetToDefaults

SpecConfig == InitConfig /\ [][NextConfig]_vars

(***************************************************************************)
(* Observations on the configuration                                       *)
(***************************************************************************)
\* the keys of the built-in defaults that hold scalars, and their values
DefaultKeys ==
    {<<"extraction_method">>, <<"output_format", "delimiter">>,
     <<"output_format", "encoding">>}

BuiltinValue(key) ==
    IF Len(key) = 1 THEN BuiltinTop[key[1]].v ELSE BuiltinSub[key[1]][key[2]]

BuiltinTree == <<BuiltinTop, BuiltinSub>>

\* what the user document says about a default key: its value, that the
\* key is gone because an enclosing key was set to a scalar, or nothing
UserSays(user, key) ==
    LET e == user.top[key[1]]
    IN IF e.t = "absent" THEN NoValue
       ELSE IF Len(key) = 1 THEN e.v
       ELSE IF e.t = "dict" THEN e.d[key[2]]
       ELSE "<gone>"

\* the value of a default key in the deep merge of the document over the
\* built-in defaults
DeepMerged(user, key) ==
    IF UserSays(user, key) = NoValue THEN BuiltinValue(key)
    ELSE IF UserSays(user, key) = "<gone>" THEN NoValue
    ELSE UserSays(user, key)

\* C24 as stated: after a load_config that returned True, every default key
\* has the value of the deep merge of the user document over the built-in
\* defaults, and default_config is what it was before the call.
C24_AsStated ==
    (config.op = "load_config" /\ config.ok /\ config.file.user.isdict) =>
        /\ \A key \in DefaultKeys :
              get(config, key) = DeepMerged(config.file.user, key)
        /\ DefaultTree(config) = config.before

\* C27 as stated: after reset_to_defaults every default key reads its
\* built-in value, and default_config always is the built-in configuration.
C27_AsStated ==
    /\ config.op = "reset_to_defaults" =>
          \A key \in DefaultKeys : get(config, key) = BuiltinValue(key)
    /\ config.op # "none" => DefaultTree(config) = BuiltinTree

(***************************************************************************)
(* FileHandler.save_csv (src/src/utils/file_handler.py) on one output      *)
(* path: the file at the path and its backup sibling                       *)
(* output_path.with_suffix(".backup" + suffix).  The file system may       *)
(* refuse any of the steps.                                                *)
(***************************************************************************)
MaxSaves == 3

NoSuchPath == [exists |-> FALSE, data |-> <<>>]
FileWith(data) == [exists |-> TRUE, data |-> data]

\* the step of save_csv the file system refuses, if any: creating the
\* directory, copying to the backup, opening the target, writing to it
SaveFaults == {"none", "mkdir", "copy", "open", "write"}

CsvTexts == {<<>>, <<"a">>, <<"b">>}

\* the backup sibling once save_csv begins to write, when the previous
\* file is never copied
BackupAtWrite_Skipped(target, backup) == backup

\* if output_path.exists(): shutil.copy2(output_path, backup_path)
BackupAtWrite(target, backup) == IF target.exists THEN target ELSE backup

SaveOutcome(result, target, backup) ==
    [result |-> result, target |-> target, backup |-> backup]

\* save_csv(csv_data, output_path): the value returned and the two files
save_csv(csv_data, target, backup, fault) ==
    IF csv_data = <<>> THEN SaveOutcome(FALSE, target, backup)
    ELSE IF fault = "mkdir" THEN SaveOutcome(FALSE, target, backup)
    ELSE IF target.exists /\ fault = "copy" THEN SaveOutcome(FALSE, target, backup)
    ELSE IF fault = "open"
      THEN SaveOutcome(FALSE, target, BackupAtWrite(target, backup))
    ELSE IF fault = "write"
      THEN SaveOutcome(FALSE, FileWith(<<>>), BackupAtWrite(target, backup))
    ELSE SaveOutcome(TRUE, FileWith(csv_data), BackupAtWrite(target, backup))

\* a call of save_csv: its argument and what it returned
SaveCall(csv_data, result) == [csv_data |-> csv_data, result |-> result]
NoSave == SaveCall(<<>>, FALSE)

InitDisk ==
    /\ ExtractorIdle
    /\ PipelineIdle
    /\ CliIdle /\ ConfigIdle /\ GuiIdle
    /\ \E target \in {NoSuchPath, FileWith(<<"o">>)},
          backup \in {NoSuchPath, FileWith(<<"p">>)} :
          disk = [op |-> "none", n |-> 0, target |-> target, backup |-> backup,
                  before |-> [target |-> target, backup |-> backup],
                  last |-> NoSave, prev |-> NoSave]

SaveCsv(csv_data, fault) ==
    /\ disk.n < MaxSaves
    /\ LET r == save_csv(csv_data, disk.target, disk.backup, fault)
       IN disk' = [op |-> "save_csv", n |-> disk.n + 1,
                   target |-> r.target, backup |-> r.backup,
                   before |-> [target |-> disk.target, backup |-> disk.backup],
                   last |-> SaveCall(csv_data, r.result), prev |-> disk.last]
    /\ UNCHANGED <<cli, config, gui>>
    /\ UNCHANGED extractorVars
    /\ UNCHANGED pipelineVars

NextDisk == \E csv_data \in CsvTexts, fault \in SaveFaults : SaveCsv(csv_data, fault)

SpecDisk == InitDisk /\ [][NextDisk]_vars

Saved == disk.op = "save_csv"

\* C28: a save that returns True leaves the data in the target and, when a
\* file was there before, that file's content in the backup sibling; after
\* two saves in a row that returned True the target holds the later data
\* and the backup the earlier; a save of the empty text returns False and
\* leaves both files as they were.
C28_BackupKeepsPrevious ==
    Saved =>
        /\ disk.last.result =>
              /\ disk.target = FileWith(disk.last.csv_data)
              /\ disk.before.target.exists => disk.backup = disk.before.target
        /\ (disk.last.result /\ disk.prev.result) =>
              disk.backup = FileWith(disk.prev.csv_data)
        /\ disk.last.csv_data = <<>> =>
              /\ ~disk.last.result
              /\ disk.target = disk.before.target
              /\ disk.backup = disk.before.backup

\* two saves of different texts in a row returned True on a path that held
\* a file and a backup before
C28_Witness ==
    /\ Saved
    /\ disk.n = 3
    /\ disk.last.result /\ disk.prev.result
    /\ disk.last.csv_data = <<"b">> /\ disk.prev.csv_data = <<"a">>
    /\ disk.target = FileWith(<<"b">>) /\ disk.backup = FileWith(<<"a">>)

(***************************************************************************)
(* The window of the GUI (src/gui_processor.py): the shared processing     *)
(* flag, the two start buttons, the list of the batch tab and the worker   *)
(* thread a start handler launches.  A worker that raises outside its      *)
(* try blocks ends there, as a Python thread does.                         *)
(***************************************************************************)
MaxItems == 2

\* the status _process_batch_thread writes for a file, from what the steps
\* of its try block do on it
BatchStatus(f) ==
    IF f.extract = "raise" THEN "Error"
    ELSE IF f.extract = "falsy" THEN "No Data"
    ELSE IF f.csv = "raise" THEN "Error"
    ELSE IF SaveCsvResult(f) THEN "Success"
    ELSE "Save Failed"

\* no worker thread
NoWorker == [kind |-> "none", pc |-> "", files |-> 0, processed |-> 0, success_count |-> 0]

Window(op, processing, process_button, batch_process_button, tree, worker) ==
    [op |-> op, processing |-> processing, process_button |-> process_button,
     batch_process_button |-> batch_process_button, tree |-> tree, worker |-> worker,
     status |-> "Ready"]

\* the window after __init__ and a scan of the input directory
InitGui ==
    /\ ExtractorIdle
    /\ PipelineIdle
    /\ CliIdle /\ ConfigIdle /\ DiskIdle
    /\ \E n \in 0..MaxItems :
          gui = Window("__init__", FALSE, "normal", "normal",
                       [k \in 1..n |-> "Ready"], NoWorker)

\* the Process PDF button: process_single_file()
ProcessSingleFile(fields_ok) ==
    /\ gui' = IF gui.processing \/ ~fields_ok
              THEN [gui EXCEPT !.op = "process_single_file"]
              ELSE [gui EXCEPT !.op = "process_single_file",
                               !.processing = TRUE,
                               !.process_button = "disabled",
                               !.worker = [NoWorker EXCEPT !.kind = "single",
                                                           !.pc = "run"]]
    /\ UNCHANGED <<cli, config, disk>>
    /\ UNCHANGED extractorVars
    /\ UNCHANGED pipelineVars

\* _process_single_thread: whatever the try block does on the file (the
\* status line tells), the finally block resets the flag and the button
SingleThread(f) ==
    /\ gui.worker.kind = "single"
    /\ gui' = [gui EXCEPT !.op = "_process_single_thread",
                          !.status = BatchStatus(f),
                          !.processing = FALSE,
                          !.process_button = "normal",
                          !.worker = NoWorker]
    /\ UNCHANGED <<cli, config, disk>>
    /\ UNCHANGED extractorVars
    /\ UNCHANGED pipelineVars

\* the Process All button: process_batch()
ProcessBatch(fields_ok) ==
    /\ gui' = IF gui.processing \/ ~fields_ok \/ gui.tree = <<>>
              THEN [gui EXCEPT !.op = "process_batch"]
              ELSE [gui EXCEPT !.op = "process_batch",
                               !.processing = TRUE,
                               !.batch_process_button = "disabled",
                               !.worker = [NoWorker EXCEPT !.kind = "batch",
                                                           !.pc = "start",
                                                           !.files = Len(gui.tree)]]
    /\ UNCHANGED <<cli, config, disk>>
    /\ UNCHANGED extractorVars
    /\ UNCHANGED pipelineVars

\* _process_batch_thread before its loop: Path(output_dir).mkdir(...) and
\* _get_processing_options(), outside any try block
BatchThreadStart(mkdir_ok) ==
    /\ gui.worker.kind = "batch" /\ gui.worker.pc = "start"
    /\ gui' = IF mkdir_ok
              THEN [gui EXCEPT !.op = "_process_batch_thread", !.worker.pc = "loop"]
              ELSE [gui EXCEPT !.op = "_process_batch_thread", !.worker = NoWorker]
    /\ UNCHANGED <<cli, config, disk>>
    /\ UNCHANGED extractorVars
    /\ UNCHANGED pipelineVars

\* one turn of the loop of _process_batch_thread.  file_tree.set raises
\* for an item that Clear List has deleted: in the try block first, and
\* then again in the except block, which ends the thread
BatchThreadFile(f) ==
    /\ gui.worker.kind = "batch" /\ gui.worker.pc = "loop"
    /\ gui.worker.processed < gui.worker.files
    /\ LET k == gui.worker.processed + 1
       IN gui' =
            IF k > Len(gui.tree)
            THEN [gui EXCEPT !.op = "_process_batch_thread", !.worker = NoWorker]
            ELSE [gui EXCEPT !.op = "_process_batch_thread",
                             !.tree[k] = BatchStatus(f),
                             !.worker.processed = k,
                             !.worker.success_count =
                                 IF BatchStatus(f) = "Success" THEN @ + 1 ELSE @]
    /\ UNCHANGED <<cli, config, disk>>
    /\ UNCHANGED extractorVars
    /\ UNCHANGED pipelineVars

\* the end of _process_batch_thread: the summary dialog, then the flag and
\* the button are reset
BatchThreadEnd ==
    /\ gui.worker.kind = "batch" /\ gui.worker.pc = "loop"
    /\ gui.worker.processed = gui.worker.files
    /\ gui' = [gui EXCEPT !.op = "_process_batch_thread",
                          !.processing = FALSE,
                          !.batch_process_button = "normal",
                          !.worker = NoWorker]
    /\ UNCHANGED <<cli, config, disk>>
    /\ UNCHANGED extractorVars
    /\ UNCHANGED pipelineVars

\* the Clear List button: clear_file_list() deletes every item of the list
ClearFileList ==
    /\ gui.tree # <<>>
    /\ gui' = [gui EXCEPT !.op = "clear_file_list", !.tree = <<>>]
    /\ UNCHANGED <<cli, config, disk>>
    /\ UNCHANGED extractorVars
    /\ UNCHANGED pipelineVars

\* the steps of the worker threads
WorkerStep ==
    \/ \E f \in FileFates : SingleThread(f)
    \/ \E mkdir_ok \in BOOLEAN : BatchThreadStart(mkdir_ok)
    \/ \E f \in FileFates : BatchThreadFile(f)
    \/ BatchThreadEnd

NextGui ==
    \/ \E fields_ok \in BOOLEAN : ProcessSingleFile(fields_ok)
    \/ \E fields_ok \in BOOLEAN : ProcessBatch(fields_ok)
    \/ ClearFileList
    \/ WorkerStep

SpecGui == InitGui /\ [][NextGui]_vars

\* a started thread is scheduled until it ends
SpecGuiFair == SpecGui /\ WF_vars(WorkerStep)

\* C29 as stated: whenever the processing flag is set, it is eventually
\* reset with both start buttons enabled again.
C29_AsStated ==
    [](gui.processing =>
          <>(/\ ~gui.processing
             /\ gui.process_button = "normal"
             /\ gui.batch_process_button = "normal"))

====
